---- MODULE Spec2Model ----
(***************************************************************************)
(* State-machine model of the real-time transport of agent-sdk-core.       *)
(*                                                                         *)
(* Part 1: the reconnecting client, class WSClient.  One client instance   *)
(* is modelled together with every WebSocket object and every timer it     *)
(* has created: the handlers installed by connect() stay attached to a     *)
(* socket for that socket's whole life, and a setTimeout callback stays    *)
(* pending until it fires or is cleared, whether or not the client still   *)
(* holds a reference to it.                                                *)
(*                                                                         *)
(* Part 2: the server, createWSServer with createHeartbeat and broadcast.  *)
(* One server is modelled with every connection the WebSocketServer has    *)
(* upgraded; wss.clients holds a connection until its close event.         *)
(*                                                                         *)
(* Part 3: ProgressAggregator, with the summary callback it is given; the  *)
(* callback may itself push an event.                                      *)
(***************************************************************************)
EXTENDS Integers, Sequences, FiniteSets, TLC

\* ------------------------------------------------------------------ bounds
\* Number of WebSocket objects the client may construct in one behaviour.
MaxSockets == 3
\* Number of send() calls in one behaviour; the k-th call sends message k.
MaxSends == 2
\* Number of inbound frames in one behaviour.
MaxFrames == 2
\* Number of handshakes the server receives in one behaviour.
MaxHandshakes == 3
\* Number of events pushed to the aggregator in one behaviour.
MaxPushes == 3
\* execute()/send() calls made on the Claude session
MaxCalls == 3

\* ------------------------------------------------------- program constants
DefaultMaxBackoffMs == 30000
BackoffUnitMs == 1000
MAX_BROADCAST_SIZE == 1 * 1024 * 1024

\* ------------------------------------------------------------ input domains
\* The handlers application code may pass to subscribe().
Handlers == {"h1", "h2"}
\* Constructor options the model explores (WSClientOptions): unlimited and
\* limited attempts; a backoff ceiling above every base delay, below the first
\* and between the first and the second; queue sizes 0, 1 and 2.
Configs ==
    { [maxAttempts |-> 0, maxBackoffMs |-> DefaultMaxBackoffMs, maxQueueSize |-> 0],
      [maxAttempts |-> 1, maxBackoffMs |-> 900, maxQueueSize |-> 2],
      [maxAttempts |-> 2, maxBackoffMs |-> 1050, maxQueueSize |-> 1] }
\* Values of Math.random(), in tenths: a value in [0, 1).
RandomTenths == {0, 9}

\* No frame has arrived yet.
NoFrame == [kind |-> "none", own |-> {}, type |-> "undefined", inner |-> {}]

\* WebSocket.readyState
CONNECTING == "CONNECTING"
OPEN == "OPEN"
CLOSING == "CLOSING"
CLOSED == "CLOSED"

\* ------------------------------------------------------------------- state
VARIABLES
    maxAttempts,     \* readonly option
    maxBackoffMs,    \* readonly option
    maxQueueSize,    \* readonly option
    ws,              \* this.ws: 0 for null, else the index of a socket
    listeners,       \* this.listeners: Set of handlers
    queue,           \* this.queue: serialized messages, oldest first
    attempts,        \* this.attempts
    disposed,        \* this.disposed
    reconnectTimer,  \* this.reconnectTimer: 0 for null, else a timer id
    sockets,         \* readyState of every WebSocket the client constructed
    timers,          \* pending setTimeout callbacks: [id, delay (1/100 ms)]
    timerCount,      \* number of setTimeout calls so far
    closures,        \* handlers for which subscribe() has returned a closure
    wire,            \* every ws.send(data): <<socket, message>>, in order
    sendCount,       \* number of send() calls so far
    offline,         \* messages passed to send() since this.ws was last open
    frameCount,      \* number of inbound frames so far
    lastFrame,       \* the most recent inbound frame
    delivered        \* every delivery: [frame, the handlers invoked with it]

\* The server.
VARIABLES
    allowedOrigins,  \* option: [given, list]
    verifyClient,    \* option: whether a custom verifier is configured
    maxConnections,  \* option
    clients,         \* every connection the server upgraded, in arrival order
    handshakeCount,  \* number of handshakes received so far
    lastHandshake,   \* the most recent handshake and its outcome
    lastBroadcast,   \* the most recent broadcast() call and its recipients
    onMessage,       \* option: whether an onMessage callback is configured
    serverFrameCount,\* number of frames the server received so far
    lastServerFrame, \* the most recent frame and the connection it came on
    onMessageCount,  \* number of onMessage calls so far
    lastOnMessage,   \* the value of the most recent onMessage call
    heartbeat,       \* TRUE while the setInterval of createHeartbeat is active
    listening        \* TRUE until wss.close()

serverOptions == <<allowedOrigins, verifyClient, maxConnections, onMessage>>

serverInbound == <<serverFrameCount, lastServerFrame, onMessageCount,
                   lastOnMessage>>

serverLifecycle == <<heartbeat, listening>>

serverVars == <<serverOptions, clients, handshakeCount, lastHandshake,
                lastBroadcast, serverInbound, serverLifecycle>>

\* The aggregator.
VARIABLES
    buffer,          \* this.buffer: events, oldest first
    interval,        \* this.interval: TRUE while the setInterval is active
    maxBufferSize,   \* this.maxBufferSize
    summaries,       \* every onSummary call, in order
    pushCount,       \* number of events pushed so far; the k-th has id k
    lastFlushAt      \* pushCount when flush() last took the buffer

aggregatorVars == <<buffer, interval, maxBufferSize, summaries, pushCount,
                    lastFlushAt>>

clientVars == <<maxAttempts, maxBackoffMs, maxQueueSize, ws, listeners, queue,
                attempts, disposed, reconnectTimer, sockets, timers, timerCount,
                closures, wire, sendCount, offline, frameCount, lastFrame,
                delivered>>

\* The Claude session.
VARIABLES
    lockCalls,       \* every execute()/send() that reached withLock, in call order
    queryLock,       \* queryLock: 0 for the initial promise, else the call whose
                     \* promise it is
    released,        \* the lock promises that are resolved
    sessionId,       \* sessionId: TRUE once it is not null
    aborted,         \* aborted
    started,         \* the calls whose runQuery has started, in that order
    sendThrows       \* number of send() calls that threw before taking the lock

claudeVars == <<lockCalls, queryLock, released, sessionId, aborted, started,
                sendThrows>>

\* One call of mapOpenCodeEvent.
VARIABLES
    openCodeSessionId, \* argument sessionId
    openCodeEvent,     \* argument event
    contextId,         \* argument contextId
    emitted,           \* the AgentEvents passed to onEvent, in order
    mapped             \* TRUE once mapOpenCodeEvent has returned

openCodeVars == <<openCodeSessionId, openCodeEvent, contextId, emitted, mapped>>

\* The Copilot session.
VARIABLES
    handlers,          \* the handlers registered on the SDK session: the index
                       \* of the execute() that registered each
    unsubscribe,       \* unsubscribe: 0 for null, else the handler it removes
    executeCount,      \* number of execute() calls so far
    mapCalls,          \* for every SDK session event, in order: how many times
                       \* mapSessionEvent was called with it, and when
    destroyed          \* TRUE once destroy() has been called

copilotVars == <<handlers, unsubscribe, executeCount, mapCalls, destroyed>>

providerVars == <<claudeVars, openCodeVars, copilotVars>>

vars == <<clientVars, serverVars, aggregatorVars, providerVars>>

config == <<maxAttempts, maxBackoffMs, maxQueueSize>>

\* ------------------------------------------------------------------ helpers
Min(a, b) == IF a <= b THEN a ELSE b

RECURSIVE Pow2(_)
Pow2(n) == IF n = 0 THEN 1 ELSE 2 * Pow2(n - 1)

\* Array.prototype.shift(): removes the first element, a no-op on [].
Shift(q) == IF q = <<>> THEN q ELSE Tail(q)

\* The last k elements of s.
LastK(s, k) == SubSeq(s, Len(s) - k + 1, Len(s))

\* ws?.readyState
ReadyState == IF ws = 0 THEN "none" ELSE sockets[ws]

\* get connected()
connected == ReadyState = OPEN

\* No handshake has been received yet, no broadcast() has been called yet.
NoHandshake == [origin |-> "none", verdict |-> TRUE, accepted |-> FALSE,
                consulted |-> FALSE]
NoBroadcast == [length |-> 0, bytes |-> 0, recipients |-> {}, tracked |-> 0,
                sends |-> <<>>]

\* Options of createWSServer the model explores (WSServerOptions): the
\* allowlist unset, empty, with one and with two origins; with and without a
\* custom verifier; no connection limit and limits of 1 and 2.
NoAllowlist == [given |-> FALSE, list |-> <<>>]
ServerConfigs ==
    { [allowedOrigins |-> NoAllowlist, verifyClient |-> FALSE, maxConnections |-> 0,
       onMessage |-> TRUE],
      [allowedOrigins |-> [given |-> TRUE, list |-> <<"http://a">>],
       verifyClient |-> TRUE, maxConnections |-> 1, onMessage |-> TRUE],
      [allowedOrigins |-> [given |-> TRUE, list |-> <<>>],
       verifyClient |-> FALSE, maxConnections |-> 2, onMessage |-> FALSE],
      [allowedOrigins |-> [given |-> TRUE, list |-> <<"http://b", "http://a">>],
       verifyClient |-> FALSE, maxConnections |-> 1, onMessage |-> TRUE],
      [allowedOrigins |-> NoAllowlist, verifyClient |-> TRUE, maxConnections |-> 2,
       onMessage |-> TRUE] }

\* The options of a server that takes no part in a behaviour.
IdleServerConfig ==
    [allowedOrigins |-> NoAllowlist, verifyClient |-> FALSE, maxConnections |-> 0,
     onMessage |-> FALSE]

\* The options of a client that takes no part in a behaviour.
IdleClientConfig ==
    [maxAttempts |-> 0, maxBackoffMs |-> DefaultMaxBackoffMs, maxQueueSize |-> 0]

\* No frame has reached the server yet, onMessage has not been called yet.
JNull == [t |-> "null", kids |-> <<>>]
NoServerFrame == [conn |-> 0, valid |-> FALSE, value |-> JNull]

\* Constructor arguments of the aggregator the model explores: maxBufferSize.
AggregatorConfigs == {1, 2, 1000}

\* An aggregator just constructed with maxBufferSize in sizes: the interval
\* timer is running.
InitAggregator(sizes) ==
    /\ maxBufferSize \in sizes
    /\ buffer = <<>>
    /\ interval = TRUE
    /\ summaries = <<>>
    /\ pushCount = 0
    /\ lastFlushAt = 0

\* A Claude session just returned by createSession; resumed says whether
\* config.resumeSessionId was given.
InitClaude(resumed) ==
    /\ lockCalls = <<>>
    /\ queryLock = 0
    /\ released = {0}
    /\ sessionId \in resumed
    /\ aborted = FALSE
    /\ started = <<>>
    /\ sendThrows = 0

\* mapOpenCodeEvent about to be called with a session id, an event and a
\* context id out of the given sets.
InitOpenCode(ids, events, contexts) ==
    /\ openCodeSessionId \in ids
    /\ openCodeEvent \in events
    /\ contextId \in contexts
    /\ emitted = <<>>
    /\ mapped = FALSE

\* A Copilot session just returned by createSession.
InitCopilot ==
    /\ handlers = {}
    /\ unsubscribe = 0
    /\ executeCount = 0
    /\ mapCalls = <<>>
    /\ destroyed = FALSE

\* An event of a type mapOpenCodeEvent has no case for.
IdleOpenCodeEvent ==
    [type |-> "server.connected", sessionID |-> "undefined", error |-> FALSE,
     part |-> [type |-> "none", delta |-> "", text |-> "", tool |-> "",
               status |-> "none", files |-> <<>>]]

\* The provider sessions just created, none of them used.
InitProviders ==
    /\ InitCopilot
    /\ InitClaude({FALSE})
    /\ InitOpenCode({"ses-1"}, {IdleOpenCodeEvent}, {"ctx-1"})

\* A server just created by createWSServer with options in cfgs.
InitServer(cfgs) ==
    /\ \E c \in cfgs :
          /\ allowedOrigins = c.allowedOrigins
          /\ verifyClient = c.verifyClient
          /\ maxConnections = c.maxConnections
          /\ onMessage = c.onMessage
    /\ clients = <<>>
    /\ handshakeCount = 0
    /\ lastHandshake = NoHandshake
    /\ lastBroadcast = NoBroadcast
    /\ serverFrameCount = 0
    /\ lastServerFrame = NoServerFrame
    /\ onMessageCount = 0
    /\ lastOnMessage = JNull
    /\ heartbeat = TRUE
    /\ listening = TRUE

\* A client just constructed with options in cfgs.
InitClient(cfgs) ==
    /\ \E c \in cfgs :
          /\ maxAttempts = c.maxAttempts
          /\ maxBackoffMs = c.maxBackoffMs
          /\ maxQueueSize = c.maxQueueSize
    /\ ws = 0
    /\ listeners = {}
    /\ queue = <<>>
    /\ attempts = 0
    /\ disposed = FALSE
    /\ reconnectTimer = 0
    /\ sockets = <<>>
    /\ timers = {}
    /\ timerCount = 0
    /\ closures = {}
    /\ wire = <<>>
    /\ sendCount = 0
    /\ offline = <<>>
    /\ frameCount = 0
    /\ lastFrame = NoFrame
    /\ delivered = <<>>

\* The client under study, beside a server and an aggregator that stay idle.
Init ==
    /\ InitProviders
    /\ InitClient(Configs)
    /\ InitServer({IdleServerConfig})
    /\ InitAggregator({1000})

\* ------------------------------------------------- the WebSocket environment
\* WebSocket.close(): a connecting or open socket starts closing; closing an
\* already closing or closed socket is a no-op.
CloseSocket(socks, s) ==
    IF s # 0 /\ socks[s] \in {CONNECTING, OPEN}
    THEN [socks EXCEPT ![s] = CLOSING]
    ELSE socks

\* Inbound frames, by what JSON.parse makes of the text: a parse failure, or a
\* value of some kind; for an object, its own keys, the typeof its `type` and
\* the own keys of the objects inside its payload.
Frames ==
    { [kind |-> "invalid", own |-> {}, type |-> "undefined", inner |-> {}],
      [kind |-> "null", own |-> {}, type |-> "undefined", inner |-> {}],
      [kind |-> "number", own |-> {}, type |-> "undefined", inner |-> {}],
      [kind |-> "string", own |-> {}, type |-> "undefined", inner |-> {}],
      [kind |-> "array", own |-> {}, type |-> "undefined", inner |-> {}],
      [kind |-> "object", own |-> {"payload"}, type |-> "undefined", inner |-> {}],
      [kind |-> "object", own |-> {"type", "payload"}, type |-> "string",
       inner |-> {}],
      [kind |-> "object", own |-> {"type", "payload"}, type |-> "string",
       inner |-> {"a", "__proto__"}],
      [kind |-> "object", own |-> {"type", "payload", "__proto__"}, type |-> "string",
       inner |-> {}] }

\* Properties every value JSON.parse returns for an object or array inherits
\* from Object.prototype.
ObjectPrototypeProps ==
    {"constructor", "__proto__", "hasOwnProperty", "isPrototypeOf",
     "propertyIsEnumerable", "toLocaleString", "toString", "valueOf"}

\* The JavaScript `in` operator: key in raw, own or inherited.
HasProperty(key, raw) == key \in raw.own \/ key \in ObjectPrototypeProps

\* A frame that parses to a JSON object with a string `type` field.
WellFormed(f) == f.kind = "object" /\ f.type = "string"

\* ------------------------------------------------------------ WSClient code
\* connect() without its `if (this.disposed) return`.
Connect_NoDisposedCheck ==
    /\ sockets' = Append(sockets, CONNECTING)
    /\ ws' = Len(sockets) + 1

\* connect(): construct a socket and install the handlers, unless disposed.
Connect ==
    IF disposed
    THEN UNCHANGED <<ws, sockets>>
    ELSE /\ sockets' = Append(sockets, CONNECTING)
         /\ ws' = Len(sockets) + 1

\* ensureConnection()
EnsureConnection ==
    IF ws # 0 /\ (sockets[ws] = OPEN \/ sockets[ws] = CONNECTING)
    THEN UNCHANGED <<ws, sockets>>
    ELSE Connect

\* Whether a call of ensureConnection() / connect() would construct a socket.
EnsureConstructs == ~(ws # 0 /\ sockets[ws] \in {OPEN, CONNECTING}) /\ ~disposed
ConnectConstructs == ~disposed

\* dispose() without `this.ws?.close(); this.ws = null`.
Dispose_LeavesSocket ==
    /\ disposed' = TRUE
    /\ timers' = {t \in timers : t.id # reconnectTimer}
    /\ reconnectTimer' = 0
    /\ UNCHANGED <<sockets, ws>>
    /\ queue' = <<>>

\* dispose()
Dispose ==
    /\ disposed' = TRUE
    /\ timers' = {t \in timers : t.id # reconnectTimer}
    /\ reconnectTimer' = 0
    /\ sockets' = CloseSocket(sockets, ws)
    /\ ws' = 0
    /\ queue' = <<>>

\* The delay without the final Math.min(jitter, this.maxBackoffMs).
BackoffDelay_NoClamp(n, maxBackoff, r) ==
    Min(BackoffUnitMs * Pow2(n), maxBackoff) * (70 + r * 6)

\* The delay scheduleReconnect() computes for attempts = n, with Math.random()
\* returning r/10, in units of 1/100 ms.
BackoffDelay(n, maxBackoff, r) ==
    LET base == Min(BackoffUnitMs * Pow2(n), maxBackoff)
        jitter == base * (70 + r * 6)
    IN Min(jitter, maxBackoff * 100)

\* scheduleReconnect() with the ceiling test off by one (> for >=).
ScheduleReconnect_OffByOne(r) ==
    IF maxAttempts > 0 /\ attempts > maxAttempts
    THEN UNCHANGED <<attempts, reconnectTimer, timers, timerCount>>
    ELSE /\ attempts' = attempts + 1
         /\ timerCount' = timerCount + 1
         /\ reconnectTimer' = timerCount + 1
         /\ timers' = timers \cup
                {[id |-> timerCount + 1,
                  delay |-> BackoffDelay(attempts, maxBackoffMs, r)]}

\* scheduleReconnect() without its `this.attempts++`.
ScheduleReconnect_NoIncrement(r) ==
    IF maxAttempts > 0 /\ attempts >= maxAttempts
    THEN UNCHANGED <<attempts, reconnectTimer, timers, timerCount>>
    ELSE /\ attempts' = attempts
         /\ timerCount' = timerCount + 1
         /\ reconnectTimer' = timerCount + 1
         /\ timers' = timers \cup
                {[id |-> timerCount + 1,
                  delay |-> BackoffDelay(attempts, maxBackoffMs, r)]}

\* scheduleReconnect(), with Math.random() returning r/10.
ScheduleReconnect(r) ==
    IF maxAttempts > 0 /\ attempts >= maxAttempts
    THEN UNCHANGED <<attempts, reconnectTimer, timers, timerCount>>
    ELSE /\ attempts' = attempts + 1
         /\ timerCount' = timerCount + 1
         /\ reconnectTimer' = timerCount + 1
         /\ timers' = timers \cup
                {[id |-> timerCount + 1,
                  delay |-> BackoffDelay(attempts, maxBackoffMs, r)]}

\* flushQueue() sending every queued message without removing it.
FlushQueue_NoDequeue(q, w, rs) ==
    IF rs = OPEN
    THEN [queue |-> q, wire |-> w \o [i \in 1..Len(q) |-> <<ws, q[i]>>]]
    ELSE [queue |-> q, wire |-> w]

\* flushQueue(): the while loop, run with queue q, wire w and this.ws in
\* readyState rs.
RECURSIVE FlushQueue(_, _, _)
FlushQueue(q, w, rs) ==
    IF Len(q) > 0 /\ rs = OPEN
    THEN FlushQueue(Tail(q), Append(w, <<ws, Head(q)>>), rs)
    ELSE [queue |-> q, wire |-> w]

\* A queue that drops the new message, not the oldest, when it is full.
Enqueue_DropNewest(q, data) ==
    IF Len(q) >= maxQueueSize THEN q ELSE Append(q, data)

\* The queue after send() pushes data while the socket is not open.
Enqueue(q, data) ==
    Append(IF Len(q) >= maxQueueSize THEN Shift(q) ELSE q, data)

\* onmessage without the checks on the parsed value.
OnMessage_NoValidation(f) ==
    IF f.kind = "invalid" THEN {} ELSE listeners

\* The handlers ws.onmessage invokes for the frame f.
OnMessage(f) ==
    IF f.kind = "invalid" THEN {}                          \* JSON.parse throws
    ELSE IF f.kind = "null" \/ f.kind \notin {"object", "array"}
                            \/ f.type # "string" THEN {}
    ELSE IF HasProperty("__proto__", f) \/ HasProperty("constructor", f)
                                        \/ HasProperty("prototype", f) THEN {}
    ELSE listeners

\* ----------------------------------------------------------------- actions
\* client.subscribe(h)
Subscribe(h) ==
    /\ EnsureConstructs => Len(sockets) < MaxSockets
    /\ listeners' = listeners \cup {h}
    /\ closures' = closures \cup {h}
    /\ EnsureConnection
    /\ UNCHANGED <<serverVars, aggregatorVars, providerVars>>
    /\ UNCHANGED <<config, queue, attempts, disposed, reconnectTimer, timers,
                   timerCount, wire, sendCount, offline, frameCount, lastFrame,
                   delivered>>

\* The closure calling dispose() whatever the number of listeners left.
Unsubscribe_AlwaysDisposes(h) ==
    /\ h \in closures
    /\ listeners' = listeners \ {h}
    /\ Dispose
    /\ UNCHANGED <<serverVars, aggregatorVars, providerVars>>
    /\ UNCHANGED <<config, attempts, timerCount, closures, wire, sendCount,
                   offline, frameCount, lastFrame, delivered>>

\* A call of the closure subscribe(h) returned.
Unsubscribe(h) ==
    /\ h \in closures
    /\ listeners' = listeners \ {h}
    /\ IF listeners' = {}
       THEN Dispose
       ELSE UNCHANGED <<disposed, timers, reconnectTimer, sockets, ws, queue>>
    /\ UNCHANGED <<serverVars, aggregatorVars, providerVars>>
    /\ UNCHANGED <<config, attempts, timerCount, closures, wire, sendCount,
                   offline, frameCount, lastFrame, delivered>>

\* send() calling ensureConnection() when the socket is not open.
Send_EnsuresConnection ==
    /\ sendCount < MaxSends
    /\ (~connected /\ EnsureConstructs) => Len(sockets) < MaxSockets
    /\ sendCount' = sendCount + 1
    /\ IF ws # 0 /\ sockets[ws] = OPEN
       THEN /\ wire' = Append(wire, <<ws, sendCount + 1>>)
            /\ UNCHANGED <<queue, offline, ws, sockets>>
       ELSE /\ queue' = Enqueue(queue, sendCount + 1)
            /\ offline' = Append(offline, sendCount + 1)
            /\ EnsureConnection
            /\ UNCHANGED wire
    /\ UNCHANGED <<serverVars, aggregatorVars, providerVars>>
    /\ UNCHANGED <<config, listeners, attempts, disposed, reconnectTimer,
                   timers, timerCount, closures, frameCount, lastFrame,
                   delivered>>

\* client.send(message): the k-th call sends message k.
Send ==
    /\ sendCount < MaxSends
    /\ sendCount' = sendCount + 1
    /\ IF ws # 0 /\ sockets[ws] = OPEN
       THEN /\ wire' = Append(wire, <<ws, sendCount + 1>>)
            /\ UNCHANGED <<queue, offline>>
       ELSE /\ queue' = Enqueue(queue, sendCount + 1)
            /\ offline' = Append(offline, sendCount + 1)
            /\ UNCHANGED wire
    /\ UNCHANGED <<serverVars, aggregatorVars, providerVars>>
    /\ UNCHANGED <<config, ws, listeners, attempts, disposed, reconnectTimer,
                   sockets, timers, timerCount, closures, frameCount, lastFrame,
                   delivered>>

\* client.dispose()
DisposeCall ==
    /\ Dispose
    /\ UNCHANGED <<serverVars, aggregatorVars, providerVars>>
    /\ UNCHANGED <<config, listeners, attempts, timerCount, closures, wire,
                   sendCount, offline, frameCount, lastFrame, delivered>>

\* Socket s opens: ws.onopen.
SocketOpen(s) ==
    /\ sockets[s] = CONNECTING
    /\ sockets' = [sockets EXCEPT ![s] = OPEN]
    /\ attempts' = 0
    /\ LET flushed == FlushQueue(queue, wire, IF ws = 0 THEN "none" ELSE sockets'[ws])
       IN /\ queue' = flushed.queue
          /\ wire' = flushed.wire
    /\ offline' = IF s = ws THEN <<>> ELSE offline
    /\ UNCHANGED <<serverVars, aggregatorVars, providerVars>>
    /\ UNCHANGED <<config, ws, listeners, disposed, reconnectTimer, timers,
                   timerCount, closures, sendCount, frameCount, lastFrame,
                   delivered>>

\* Socket s closes (a failed handshake, a network error, the peer's close or
\* the end of the client's own close): ws.onclose.
SocketClose(s) ==
    /\ sockets[s] # CLOSED
    /\ sockets' = [sockets EXCEPT ![s] = CLOSED]
    /\ IF ~disposed /\ Cardinality(listeners) > 0
       THEN \E r \in RandomTenths : ScheduleReconnect(r)
       ELSE UNCHANGED <<attempts, reconnectTimer, timers, timerCount>>
    /\ UNCHANGED <<serverVars, aggregatorVars, providerVars>>
    /\ UNCHANGED <<config, ws, listeners, queue, disposed, closures, wire,
                   sendCount, offline, frameCount, lastFrame, delivered>>

\* The timer callback clearing the handle without calling connect().
TimerFire_NoConnect(t) ==
    /\ t \in timers
    /\ ConnectConstructs => Len(sockets) < MaxSockets
    /\ timers' = timers \ {t}
    /\ reconnectTimer' = 0
    /\ UNCHANGED <<ws, sockets>>
    /\ UNCHANGED <<serverVars, aggregatorVars, providerVars>>
    /\ UNCHANGED <<config, listeners, queue, attempts, disposed, timerCount,
                   closures, wire, sendCount, offline, frameCount, lastFrame,
                   delivered>>

\* The setTimeout callback of timer t runs.
TimerFire(t) ==
    /\ t \in timers
    /\ ConnectConstructs => Len(sockets) < MaxSockets
    /\ timers' = timers \ {t}
    /\ reconnectTimer' = 0
    /\ Connect
    /\ UNCHANGED <<serverVars, aggregatorVars, providerVars>>
    /\ UNCHANGED <<config, listeners, queue, attempts, disposed, timerCount,
                   closures, wire, sendCount, offline, frameCount, lastFrame,
                   delivered>>

\* Frame f arrives on the open socket s: ws.onmessage.
SocketMessage(s, f) ==
    /\ sockets[s] = OPEN
    /\ frameCount < MaxFrames
    /\ frameCount' = frameCount + 1
    /\ lastFrame' = f
    /\ delivered' = IF OnMessage(f) = {} THEN delivered
                    ELSE Append(delivered, [frame |-> f, handlers |-> OnMessage(f)])
    /\ UNCHANGED <<serverVars, aggregatorVars, providerVars>>
    /\ UNCHANGED <<config, ws, listeners, queue, attempts, disposed,
                   reconnectTimer, sockets, timers, timerCount, closures, wire,
                   sendCount, offline>>

\* The operations and events of the connection lifecycle.
Lifecycle ==
    \/ \E h \in Handlers : Subscribe(h)
    \/ \E h \in Handlers : Unsubscribe(h)
    \/ DisposeCall
    \/ \E s \in DOMAIN sockets : SocketOpen(s)
    \/ \E s \in DOMAIN sockets : SocketClose(s)
    \/ \E t \in timers : TimerFire(t)

\* The lifecycle interleaved with outbound traffic.
Next ==
    \/ Lifecycle
    \/ Send

Spec == Init /\ [][Next]_vars

\* The lifecycle alone, every timer set by setTimeout eventually running its
\* callback unless clearTimeout cancels it first.
TimerIds == 1..MaxSockets
TimerFairness == \A k \in TimerIds : WF_vars(\E t \in timers : t.id = k /\ TimerFire(t))
SpecReconnect == Init /\ [][Lifecycle]_vars /\ TimerFairness

\* The lifecycle interleaved with inbound traffic.
NextInbound ==
    \/ Lifecycle
    \/ \E s \in DOMAIN sockets, f \in Frames : SocketMessage(s, f)

SpecInbound == Init /\ [][NextInbound]_vars

\* ======================================================= claims, client
\* Sockets of the client that are connecting or open.
LiveSockets == {s \in DOMAIN sockets : sockets[s] \in {CONNECTING, OPEN}}

\* Some socket went from CONNECTING to OPEN in this step (an open event).
OpenedInStep == \E s \in DOMAIN sockets : sockets[s] = CONNECTING /\ sockets'[s] = OPEN

\* Some socket became CLOSED in this step (a close event).
ClosedInStep == \E s \in DOMAIN sockets : sockets[s] # CLOSED /\ sockets'[s] = CLOSED

\* C1: in every reachable state the client has at most one socket that is
\* connecting or open and at most one pending reconnect timer.
C1_OneSocketOneTimer ==
    /\ Cardinality(LiveSockets) <= 1
    /\ Cardinality(timers) <= 1

\* C2: for every configured maxQueueSize, 0 included, the length of the
\* offline queue never exceeds maxQueueSize.
C2_QueueBounded == Len(queue) <= maxQueueSize

\* C3: when this.ws opens after N messages were passed to send() while it was
\* not open, exactly the last min(N, maxQueueSize) of them are transmitted, in
\* send order, on that socket.
C3_FlushLastMin ==
    [][(ws # 0 /\ sockets[ws] = CONNECTING /\ sockets'[ws] = OPEN) =>
          LET k == Min(Len(offline), maxQueueSize)
              last == LastK(offline, k)
          IN wire' = wire \o [i \in 1..k |-> <<ws, last[i]>>]]_vars

\* C4: disposed is terminal: once the client is disposed it stays disposed, and
\* no step (a subscribe call, a timer firing, a socket close event or any
\* other) constructs a new socket.
C4_DisposedTerminal ==
    [][disposed => (disposed' /\ Len(sockets') = Len(sockets))]_vars

\* C4 witness: a handler is registered on a disposed client that never
\* constructed a socket, so subscribe() ran after dispose() and connect()
\* returned without constructing one.
C4_Witness == disposed /\ listeners # {} /\ Len(sockets) = 0

\* C5: a socket created by the client is open only if the client has at
\* least one subscriber and is not disposed.
C5_OpenOnlyWhileSubscribed ==
    \A s \in DOMAIN sockets :
        sockets[s] = OPEN => (Cardinality(listeners) > 0 /\ ~disposed)

\* C6: every inbound frame that parses to a JSON object with a string `type`
\* field is delivered, in arrival order, once to every handler subscribed when
\* it arrives.
C6_WellFormedDelivered ==
    [][(frameCount' = frameCount + 1 /\ WellFormed(lastFrame')) =>
          delivered' = IF listeners = {} THEN delivered
                       ELSE Append(delivered,
                                   [frame |-> lastFrame', handlers |-> listeners])]_vars

\* C7: with maxAttempts > 0 the attempt counter never exceeds maxAttempts and
\* a step taken with attempts at maxAttempts (a socket close among them)
\* schedules no timer; with maxAttempts = 0 every socket close with subscribers
\* present and the client not disposed schedules a timer, which becomes the
\* pending reconnectTimer.
C7_AttemptCeiling ==
    /\ [](maxAttempts > 0 => attempts <= maxAttempts)
    /\ [][/\ (maxAttempts > 0 /\ attempts >= maxAttempts)
               => (timerCount' = timerCount /\ timers' \subseteq timers)
          /\ (maxAttempts = 0 /\ ClosedInStep /\ ~disposed /\ listeners # {})
               => /\ timerCount' = timerCount + 1
                  /\ reconnectTimer' = timerCount'
                  /\ \E t \in timers' : t.id = timerCount']_vars

\* C7 witness: with attempts at a positive maxAttempts, the socket the client
\* holds is closed, subscribers are present, the client is not disposed and no
\* timer is pending: its close scheduled no retry.
C7_Witness ==
    /\ maxAttempts > 0 /\ attempts = maxAttempts
    /\ ws # 0 /\ sockets[ws] = CLOSED
    /\ ~disposed /\ listeners # {} /\ timers = {}

\* C8: the attempt counter changes only in two ways: a socket-open event sets
\* it to 0, and the scheduling of a reconnect timer increments it by exactly
\* one; every timer scheduled increments it, every open event resets it.
C8_AttemptsFrame ==
    [][/\ attempts' # attempts =>
             \/ (OpenedInStep /\ attempts' = 0)
             \/ (timerCount' = timerCount + 1 /\ attempts' = attempts + 1)
       /\ timerCount' # timerCount =>
             (timerCount' = timerCount + 1 /\ attempts' = attempts + 1)
       /\ OpenedInStep => attempts' = 0]_vars

\* C8 witness: timers were scheduled (the counter was incremented) and a
\* later open event has reset the counter to 0.
C8_Witness ==
    /\ timerCount > 0 /\ attempts = 0
    /\ \E s \in DOMAIN sockets : sockets[s] = OPEN

\* The bounds C9 states for a delay d (in 1/100 ms) scheduled at attempts = n.
DelayInBounds(n, d) ==
    LET cap == Min(1000 * Pow2(n), maxBackoffMs)
    IN /\ 70 * cap <= d
       /\ d <= 130 * cap
       /\ d <= 100 * maxBackoffMs

\* C9: the delay of the timer scheduled when attempts = n lies between 0.7 and
\* 1.3 times min(1000 * 2^n, maxBackoffMs) and never exceeds maxBackoffMs.
C9_BackoffBounds ==
    [][timerCount' = timerCount + 1 =>
          \E t \in timers' : t.id = timerCount' /\ DelayInBounds(attempts, t.delay)]_vars

\* C9 witness: a pending timer whose jittered delay was clamped to
\* maxBackoffMs, scheduled at a positive attempt count.
C9_Witness ==
    /\ attempts > 1
    /\ \E t \in timers : t.id = timerCount /\ t.delay = 100 * maxBackoffMs

\* C10: dispose() is valid in every state and idempotent: it leaves the client
\* disposed with no socket reference, no pending reconnect timer, an empty
\* queue and connected = false, and a dispose() of a disposed client that is
\* in that state changes nothing.
C10_DisposeIdempotent ==
    [][DisposeCall =>
          /\ disposed' /\ ws' = 0 /\ queue' = <<>>
          /\ reconnectTimer' = 0 /\ timers' = {}
          /\ ~(ws' # 0 /\ sockets'[ws'] = OPEN)
          /\ (disposed /\ ws = 0 /\ queue = <<>> /\ timers = {}) => UNCHANGED vars]_vars

\* A call of the closure for h in this state changes nothing.
UnsubscribeIsNoOp(h) == ENABLED (Unsubscribe(h) /\ UNCHANGED vars)

C12_SendNeverRaises ==
    /\ [](sendCount < MaxSends => ENABLED Send)
    /\ [][sendCount' = sendCount + 1 =>
             IF connected
             THEN wire' = Append(wire, <<ws, sendCount'>>) /\ queue' = queue
             ELSE /\ wire' = wire
                  /\ queue' # <<>>
                  /\ queue'[Len(queue')] = sendCount'
                  /\ SubSeq(queue', 1, Len(queue') - 1) \in {queue, Shift(queue)}]_vars

\* C12 witness: a message was transmitted, and a later send() on the disposed
\* client has put its message in the queue.
C12_Witness == disposed /\ wire # <<>> /\ queue # <<>>

\* C13: every message passed to send() is transmitted at most once, and the
\* transmissions happen in the order of the send() calls.
C13_OnceInOrder ==
    \A i, j \in DOMAIN wire : i < j => wire[i][2] < wire[j][2]

\* C13 witness: two messages were transmitted on two different sockets.
C13_Witness == Len(wire) = 2 /\ wire[1][1] # wire[2][1]

\* C14: a frame that is not valid JSON, or parses to anything but an object
\* with a string `type`, is handled without an error, is delivered to no
\* handler and leaves socket, attempt counter, timer, queue, subscribers and
\* disposed as they were.
C14_MalformedIgnored ==
    /\ [](\A s \in DOMAIN sockets, f \in Frames :
             (sockets[s] = OPEN /\ frameCount < MaxFrames) => ENABLED SocketMessage(s, f))
    /\ [][(frameCount' = frameCount + 1 /\ ~WellFormed(lastFrame')) =>
             /\ delivered' = delivered
             /\ UNCHANGED <<ws, sockets, attempts, reconnectTimer, timers, queue,
                            listeners, disposed>>]_vars

\* C14 witness: a malformed frame has arrived while handlers were subscribed,
\* and nothing was delivered.
C14_Witness ==
    /\ frameCount > 0 /\ ~WellFormed(lastFrame)
    /\ listeners # {} /\ delivered = <<>>

\* ================================================================ the server
\* ------------------------------------------------------------ input domains
\* The Origin header of a handshake: an allowed origin, a string that differs
\* from it by a trailing slash, or no header ("none", info.origin undefined).
Origins == {"http://a", "http://a/", "none"}

\* Envelopes passed to broadcast(), by their payload string: the number of
\* ASCII characters and of characters such as the euro sign, each of the
\* latter one UTF-16 code unit and three UTF-8 bytes.
EnvelopeOverhead == 25     \* {"type":"t","payload":""}
Envelopes ==
    { [ascii |-> 5, wide |-> 0],
      [ascii |-> MAX_BROADCAST_SIZE - EnvelopeOverhead, wide |-> 0],
      [ascii |-> MAX_BROADCAST_SIZE - EnvelopeOverhead + 1, wide |-> 0],
      [ascii |-> 2 * 1024 * 1024, wide |-> 0],
      [ascii |-> 0, wide |-> 400000] }

\* JSON.stringify(message).length: the number of UTF-16 code units.
StringifyLength(m) == EnvelopeOverhead + m.ascii + m.wide

\* The size of the text frame client.send(data) transmits: UTF-8 bytes.
Utf8Bytes(m) == EnvelopeOverhead + m.ascii + 3 * m.wide

\* The elements of the array a.
Elements(a) == {a[i] : i \in DOMAIN a}

\* wss.clients: the connections whose close event has not happened.
WssClients == {c \in DOMAIN clients : clients[c].readyState # CLOSED}

\* ------------------------------------------------------------- server code
\* The origin test of wssOptions.verifyClient: passed when no allowlist is
\* given, when the list is empty, or when it includes info.origin.
OriginCheck(origin) ==
    ~(allowedOrigins.given /\ Len(allowedOrigins.list) > 0
                           /\ origin \notin Elements(allowedOrigins.list))

\* verifyClient consulting the custom verifier before the origin test.
VerifyClient_VerifierFirst(origin, verdict) ==
    IF ~(allowedOrigins.given \/ verifyClient)
    THEN [accepted |-> TRUE, consulted |-> FALSE]
    ELSE IF verifyClient /\ ~verdict
    THEN [accepted |-> FALSE, consulted |-> TRUE]
    ELSE [accepted |-> OriginCheck(origin), consulted |-> verifyClient]

\* The handshake check for a request with this Origin, the custom verifier
\* (when configured) answering verdict: whether the handshake is accepted and
\* whether the verifier was called.
VerifyClient(origin, verdict) ==
    IF ~(allowedOrigins.given \/ verifyClient)
    THEN [accepted |-> TRUE, consulted |-> FALSE]
    ELSE IF ~OriginCheck(origin)
    THEN [accepted |-> FALSE, consulted |-> FALSE]
    ELSE IF verifyClient /\ ~verdict
    THEN [accepted |-> FALSE, consulted |-> TRUE]
    ELSE [accepted |-> TRUE, consulted |-> verifyClient]

\* The 'connection' listeners without the `maxConnections > 0` test.
Connection_NoZeroTest(size) ==
    [readyState |-> IF size > maxConnections THEN CLOSING ELSE OPEN,
     closeCode |-> IF size > maxConnections THEN 1013 ELSE 0,
     admitted |-> ~(size > maxConnections),
     isAlive |-> TRUE, terminated |-> FALSE, silent |-> FALSE,
     pongInFlight |-> FALSE, outstanding |-> FALSE, missed |-> 0]

\* The 'connection' listeners run for a new connection, wss.clients (the new
\* connection included) having this size: the heartbeat's listener marks it
\* alive, the server's closes it with 1013 when over capacity and otherwise
\* calls onConnection and attaches the message handler.
Connection(size) ==
    LET over == maxConnections > 0 /\ size > maxConnections
    IN [readyState |-> IF over THEN CLOSING ELSE OPEN,
        closeCode |-> IF over THEN 1013 ELSE 0,
        admitted |-> ~over,
        isAlive |-> TRUE, terminated |-> FALSE, silent |-> FALSE,
        pongInFlight |-> FALSE, outstanding |-> FALSE, missed |-> 0]

\* ws.terminate(): the socket is destroyed; its close event follows.
Terminate(k) == [k EXCEPT !.readyState = CLOSING, !.terminated = TRUE,
                          !.pongInFlight = FALSE]

\* The ticks a connection has been visited by since its peer went silent.
Missed(k) == IF k.silent /\ ~k.terminated THEN Min(k.missed + 1, 3) ELSE k.missed

\* A heartbeat that pings a connection it finds not alive.
HeartbeatVisit_NeverTerminates(k) ==
    [k EXCEPT !.isAlive = FALSE, !.outstanding = TRUE,
              !.pongInFlight = (k.readyState = OPEN /\ ~k.silent),
              !.missed = Missed(k)]

\* The heartbeat callback for one connection of wss.clients: terminate it if
\* it is not alive, else mark it not alive and ping it.  The peer answers a
\* ping it receives with a pong unless it has gone silent.
HeartbeatVisit(k) ==
    IF k.isAlive = FALSE
    THEN Terminate([k EXCEPT !.missed = Missed(k)])
    ELSE [k EXCEPT !.isAlive = FALSE, !.outstanding = TRUE,
                   !.pongInFlight = (k.readyState = OPEN /\ ~k.silent),
                   !.missed = Missed(k)]

\* broadcast() sending to every tracked connection, whatever its readyState.
RECURSIVE BroadcastSends_NoStateTest(_, _)
BroadcastSends_NoStateTest(m, n) ==
    IF StringifyLength(m) > MAX_BROADCAST_SIZE \/ n = 0
    THEN <<>>
    ELSE LET before == BroadcastSends_NoStateTest(m, n - 1)
         IN IF n \in WssClients
            THEN Append(before, [to |-> n, data |-> m])
            ELSE before

\* The client.send(data) calls of broadcast(wss, m): wss.clients.forEach over
\* the first n connections, in the order they were added to the set.
RECURSIVE BroadcastSends(_, _)
BroadcastSends(m, n) ==
    IF StringifyLength(m) > MAX_BROADCAST_SIZE \/ n = 0
    THEN <<>>
    ELSE LET before == BroadcastSends(m, n - 1)
         IN IF n \in WssClients /\ clients[n].readyState = OPEN
            THEN Append(before, [to |-> n, data |-> m])
            ELSE before

\* The recipients of broadcast(wss, m).
BroadcastRecipients(m) ==
    IF StringifyLength(m) > MAX_BROADCAST_SIZE
    THEN {}
    ELSE {c \in WssClients : clients[c].readyState = OPEN}

\* ---------------------------------------------------------- server actions
\* A handshake arrives with this Origin; the custom verifier would answer
\* verdict.  An accepted handshake is upgraded and 'connection' is emitted.
Handshake(origin, verdict) ==
    /\ listening
    /\ handshakeCount < MaxHandshakes
    /\ handshakeCount' = handshakeCount + 1
    /\ LET v == VerifyClient(origin, verdict)
       IN /\ lastHandshake' = [origin |-> origin, verdict |-> verdict,
                               accepted |-> v.accepted, consulted |-> v.consulted]
          /\ clients' = IF v.accepted
                        THEN Append(clients, Connection(Cardinality(WssClients) + 1))
                        ELSE clients
    /\ UNCHANGED <<serverOptions, lastBroadcast>>
    /\ UNCHANGED <<clientVars, aggregatorVars, providerVars, serverInbound, serverLifecycle>>

\* The close event of connection c: it leaves wss.clients.
ConnClose(c) ==
    /\ clients[c].readyState # CLOSED
    /\ clients' = [clients EXCEPT ![c].readyState = CLOSED, ![c].pongInFlight = FALSE]
    /\ UNCHANGED <<serverOptions, handshakeCount,
                   lastHandshake, lastBroadcast>>
    /\ UNCHANGED <<clientVars, aggregatorVars, providerVars, serverInbound, serverLifecycle>>

\* One run of the setInterval callback of createHeartbeat.
Tick ==
    /\ heartbeat
    /\ clients' = [c \in DOMAIN clients |->
                      IF c \in WssClients THEN HeartbeatVisit(clients[c])
                      ELSE clients[c]]
    /\ UNCHANGED <<serverOptions, handshakeCount,
                   lastHandshake, lastBroadcast>>
    /\ UNCHANGED <<clientVars, aggregatorVars, providerVars, serverInbound, serverLifecycle>>

\* A pong that changes nothing.
Pong_Ignored(c) ==
    /\ clients[c].pongInFlight
    /\ clients' = [clients EXCEPT ![c].pongInFlight = FALSE,
                                  ![c].outstanding = FALSE]
    /\ UNCHANGED <<serverOptions, handshakeCount,
                   lastHandshake, lastBroadcast>>
    /\ UNCHANGED <<clientVars, aggregatorVars, providerVars, serverInbound, serverLifecycle>>

\* The pong of connection c arrives: its 'pong' listener.
Pong(c) ==
    /\ clients[c].pongInFlight
    /\ clients' = [clients EXCEPT ![c].isAlive = TRUE, ![c].pongInFlight = FALSE,
                                  ![c].outstanding = FALSE]
    /\ UNCHANGED <<serverOptions, handshakeCount,
                   lastHandshake, lastBroadcast>>
    /\ UNCHANGED <<clientVars, aggregatorVars, providerVars, serverInbound, serverLifecycle>>

\* The peer of the open connection c stops answering pings.
PeerSilent(c) ==
    /\ clients[c].readyState = OPEN /\ ~clients[c].silent
    /\ clients' = [clients EXCEPT ![c].silent = TRUE]
    /\ UNCHANGED <<serverOptions, handshakeCount,
                   lastHandshake, lastBroadcast>>
    /\ UNCHANGED <<clientVars, aggregatorVars, providerVars, serverInbound, serverLifecycle>>

\* broadcast(wss, m)
Broadcast(m) ==
    /\ lastBroadcast' = [length |-> StringifyLength(m), bytes |-> Utf8Bytes(m),
                         recipients |-> BroadcastRecipients(m),
                         tracked |-> Cardinality(WssClients),
                         sends |-> BroadcastSends(m, Len(clients))]
    /\ UNCHANGED <<serverOptions, clients,
                   handshakeCount, lastHandshake>>
    /\ UNCHANGED <<clientVars, aggregatorVars, providerVars, serverInbound, serverLifecycle>>

\* The disposer createHeartbeat returned: clearInterval(interval).
StopHeartbeat ==
    /\ heartbeat' = FALSE
    /\ UNCHANGED listening
    /\ UNCHANGED <<serverOptions, clients, handshakeCount, lastHandshake,
                   lastBroadcast, serverInbound>>
    /\ UNCHANGED <<clientVars, aggregatorVars, providerVars>>

\* cleanup() calling wss.close() only.
Cleanup_KeepsHeartbeat ==
    /\ listening' = FALSE
    /\ UNCHANGED heartbeat
    /\ UNCHANGED <<serverOptions, clients, handshakeCount, lastHandshake,
                   lastBroadcast, serverInbound>>
    /\ UNCHANGED <<clientVars, aggregatorVars, providerVars>>

\* cleanup(): the heartbeat's disposer, then wss.close(), which stops the
\* server accepting handshakes and leaves the open connections alone.
Cleanup ==
    /\ heartbeat' = FALSE
    /\ listening' = FALSE
    /\ UNCHANGED <<serverOptions, clients, handshakeCount, lastHandshake,
                   lastBroadcast, serverInbound>>
    /\ UNCHANGED <<clientVars, aggregatorVars, providerVars>>

\* Connections arriving and leaving.
Admission ==
    \/ \E o \in Origins, v \in (IF verifyClient THEN BOOLEAN ELSE {TRUE}) :
          Handshake(o, v)
    \/ \E c \in DOMAIN clients : ConnClose(c)

\* The server with its heartbeat.
NextServer ==
    \/ Admission
    \/ Tick
    \/ \E c \in DOMAIN clients : Pong(c)
    \/ \E c \in DOMAIN clients : PeerSilent(c)

\* The server under study, beside a client that stays idle.
Init_Server ==
    /\ InitProviders
    /\ InitClient({IdleClientConfig})
    /\ InitServer(ServerConfigs)
    /\ InitAggregator({1000})

SpecServer ==
    /\ Init_Server
    /\ [][NextServer]_vars

\* The server with broadcasts.
NextBroadcast ==
    \/ Admission
    \/ \E m \in Envelopes : Broadcast(m)

Init_Broadcast ==
    /\ InitProviders
    /\ InitClient({IdleClientConfig})
    /\ InitServer(ServerConfigs)
    /\ InitAggregator({1000})

SpecBroadcast ==
    /\ Init_Broadcast
    /\ [][NextBroadcast]_vars

\* ======================================================= claims, server
\* The connections onConnection ran for that are still open.
AdmittedOpen ==
    {c \in DOMAIN clients : clients[c].admitted /\ clients[c].readyState = OPEN}

\* The connections broadcast() finds open.
OpenConnections == {c \in WssClients : clients[c].readyState = OPEN}

\* C15: a connection whose peer has stopped answering pings is terminated no
\* later than the second heartbeat tick after it went silent.
C15_SilentTerminated ==
    \A c \in DOMAIN clients :
        clients[c].missed >= 2 => (clients[c].missed = 2 /\ clients[c].terminated)

\* C15 witness: an admitted connection went silent and was terminated by its
\* second tick.
C15_Witness ==
    \E c \in DOMAIN clients :
        clients[c].admitted /\ clients[c].missed = 2 /\ clients[c].terminated

\* C16: the heartbeat terminates a connection only while a ping it sent to it
\* is unanswered, so a connection whose every pong arrives before the next
\* tick is never terminated; and the alive flag of a tracked connection is
\* true from its connect, false from the moment a ping is sent and true again
\* from the pong.
C16_ResponsiveSurvives ==
    /\ [](\A c \in WssClients : clients[c].isAlive = ~clients[c].outstanding)
    /\ [][\A c \in DOMAIN clients :
             (~clients[c].terminated /\ clients'[c].terminated)
                => clients[c].outstanding]_vars

\* C16 witness: a later connection has been pinged and terminated, while an
\* earlier one, tracked through the same ticks, answered each ping and is
\* open and alive.
C16_Witness ==
    \E c, d \in DOMAIN clients :
        /\ c < d
        /\ clients[d].admitted /\ clients[d].terminated
        /\ clients[c].readyState = OPEN /\ clients[c].isAlive /\ ~clients[c].silent

\* C17: with an allowlist configured, of any length, a handshake whose Origin
\* is not a member of it is rejected; a handshake whose Origin is a member, or
\* any handshake when no allowlist is configured, is accepted unless a
\* configured verifier rejects it.
C17_NonMemberRejected ==
    [][handshakeCount' = handshakeCount + 1 =>
          LET h == lastHandshake'
              member == h.origin \in Elements(allowedOrigins.list)
          IN /\ (allowedOrigins.given /\ ~member) => ~h.accepted
             /\ ((~allowedOrigins.given \/ member) /\ ~(verifyClient /\ ~h.verdict))
                   => h.accepted]_vars

\* C18: a handshake is accepted if and only if it passes the origin check and
\* the custom verifier, when one is configured, returns true; the verifier is
\* called for exactly the handshakes that passed the origin check, and its
\* returning false rejects a handshake whose origin is allowed.
C18_AcceptIffBoth ==
    [][handshakeCount' = handshakeCount + 1 =>
          LET h == lastHandshake'
          IN /\ h.accepted <=> (OriginCheck(h.origin) /\ (verifyClient => h.verdict))
             /\ h.consulted <=> (verifyClient /\ OriginCheck(h.origin))
             /\ (verifyClient /\ ~h.verdict) => ~h.accepted]_vars

\* C18 witness: a handshake from an origin on the allowlist was rejected by
\* the custom verifier.
C18_Witness ==
    /\ allowedOrigins.given
    /\ lastHandshake.origin \in Elements(allowedOrigins.list)
    /\ lastHandshake.consulted /\ ~lastHandshake.verdict /\ ~lastHandshake.accepted

\* C19: with maxConnections = k > 0 the admitted open connections never
\* number more than k, and a connection that arrives when wss.clients would
\* exceed k is closed with code 1013, is not admitted and is not left open;
\* with maxConnections = 0 every connection is admitted.
C19_ConnectionLimit ==
    /\ [](/\ maxConnections > 0 => Cardinality(AdmittedOpen) <= maxConnections
          /\ \A c \in DOMAIN clients :
                ~clients[c].admitted =>
                    (clients[c].closeCode = 1013 /\ clients[c].readyState # OPEN)
          /\ maxConnections = 0 => \A c \in DOMAIN clients : clients[c].admitted)
    /\ [][(/\ Len(clients') = Len(clients) + 1
           /\ maxConnections > 0
           /\ Cardinality(WssClients) + 1 > maxConnections) =>
             LET new == clients'[Len(clients')]
             IN new.closeCode = 1013 /\ ~new.admitted /\ new.readyState # OPEN]_vars

\* C19 witness: with a limit of 2, two admitted connections are open and a
\* third was closed with 1013.
C19_Witness ==
    /\ maxConnections = 2
    /\ Cardinality(AdmittedOpen) = 2
    /\ \E c \in DOMAIN clients : clients[c].closeCode = 1013

\* C20: a broadcast of an envelope whose serialized size exceeds 1 MiB
\* (1048576 bytes) reaches no connection; one of at most 1048576 bytes,
\* exactly 1048576 included, is sent to the open connections.
C20_BroadcastSizeLimit ==
    [][lastBroadcast' # lastBroadcast =>
          /\ lastBroadcast'.bytes > 1048576 => lastBroadcast'.recipients = {}
          /\ lastBroadcast'.bytes <= 1048576 =>
                lastBroadcast'.recipients = OpenConnections]_vars

\* C21: a broadcast() within the size limit calls send exactly once, with the
\* same data, for every tracked connection that is open and for no other
\* connection; with no connection it sends nothing; and no broadcast()
\* changes the connections or their alive flags.
C21_BroadcastOncePerOpen ==
    [][lastBroadcast' # lastBroadcast =>
          /\ clients' = clients
          /\ lastBroadcast'.length <= MAX_BROADCAST_SIZE =>
                LET sends == lastBroadcast'.sends
                IN /\ \A c \in DOMAIN clients :
                         Cardinality({i \in DOMAIN sends : sends[i].to = c})
                            = IF clients[c].readyState = OPEN THEN 1 ELSE 0
                   /\ \A i, j \in DOMAIN sends : sends[i].data = sends[j].data
                   /\ \A i \in DOMAIN sends : sends[i].to \in DOMAIN clients
                   /\ clients = <<>> => sends = <<>>]_vars

\* C21 witness: a broadcast found three connections tracked and sent to two.
C21_Witness ==
    /\ lastBroadcast.tracked = 3
    /\ Len(lastBroadcast.sends) = 2

\* ==================================================== the server, inbound
\* A JSON value as JSON.parse returns it: its type and, for an object, its own
\* members in order, for an array its elements (members with an empty key).
JNumber == [t |-> "number", kids |-> <<>>]
JString == [t |-> "string", kids |-> <<>>]
JTrue == [t |-> "boolean", kids |-> <<>>]
Member(key, value) == [k |-> key, v |-> value]
JObject(members) == [t |-> "object", kids |-> members]
JArray(items) == [t |-> "array", kids |-> [i \in DOMAIN items |-> Member("", items[i])]]

\* The keys the sanitizer strips.
DangerousKeys == {"__proto__", "constructor", "prototype"}

\* The values of the frames the model sends to the server: scalars, an array,
\* objects with and without a string `type`, and objects with the stripped
\* keys at the top level, inside objects and inside arrays.
JsonValues ==
    { JNull, JNumber, JString,
      JArray(<<JNumber, JObject(<<Member("__proto__", JObject(<<Member("x", JTrue)>>))>>)>>),
      JObject(<<Member("payload", JString)>>),
      JObject(<<Member("type", JNumber), Member("payload", JString)>>),
      JObject(<<Member("type", JString), Member("payload", JString)>>),
      JObject(<<Member("type", JString),
                Member("__proto__", JObject(<<Member("isAdmin", JTrue)>>)),
                Member("data", JObject(<<Member("nested", JTrue),
                                         Member("__proto__",
                                                JObject(<<Member("evil", JTrue)>>))>>))>>),
      JObject(<<Member("type", JString),
                Member("payload",
                       JArray(<<JObject(<<Member("constructor", JString),
                                          Member("a", JNumber)>>),
                                JObject(<<Member("prototype", JNull)>>)>>))>>),
      JObject(<<Member("constructor", JObject(<<Member("prototype", JString)>>)),
                Member("type", JString)>>) }

\* The frames: text that JSON.parse rejects, or the text of a value.
ServerFrames ==
    {[valid |-> FALSE, value |-> JNull]}
        \cup {[valid |-> TRUE, value |-> v] : v \in JsonValues}

\* sanitizeJson(value): the value without the members of objects whose key is
\* one of the stripped keys, at every depth.
RECURSIVE SanitizeJson(_)
RECURSIVE SanitizeMembers(_, _)
SanitizeMembers(members, isObject) ==
    IF members = <<>> THEN <<>>
    ELSE LET m == Head(members)
             rest == SanitizeMembers(Tail(members), isObject)
         IN IF isObject /\ m.k \in DangerousKeys
            THEN rest
            ELSE <<Member(m.k, SanitizeJson(m.v))>> \o rest

SanitizeJson(value) ==
    [t |-> value.t, kids |-> SanitizeMembers(value.kids, value.t = "object")]

\* The message handler passing on what JSON.parse returned.
ServerOnMessage_NoSanitize(f) ==
    IF ~onMessage THEN <<>>
    ELSE IF ~f.valid THEN <<>>
    ELSE <<f.value>>

\* The 'message' handler of an admitted connection for the frame f: the
\* values onMessage is called with.  Without an onMessage option it returns
\* at once; an exception of JSON.parse is caught and ignored.
ServerOnMessage(f) ==
    IF ~onMessage THEN <<>>
    ELSE IF ~f.valid THEN <<>>
    ELSE <<SanitizeJson(f.value)>>

\* A 'message' handler that marks the connection alive.
ServerMessage_Revives(c, f) ==
    /\ clients[c].readyState \in {OPEN, CLOSING} /\ ~clients[c].terminated
    /\ serverFrameCount < MaxFrames
    /\ serverFrameCount' = serverFrameCount + 1
    /\ lastServerFrame' = [conn |-> c, valid |-> f.valid, value |-> f.value]
    /\ LET calls == IF clients[c].admitted THEN ServerOnMessage(f) ELSE <<>>
       IN /\ onMessageCount' = onMessageCount + Len(calls)
          /\ lastOnMessage' = IF calls = <<>> THEN lastOnMessage ELSE calls[Len(calls)]
    /\ clients' = [clients EXCEPT ![c].isAlive = TRUE, ![c].outstanding = FALSE]
    /\ UNCHANGED <<serverOptions, handshakeCount, lastHandshake,
                   lastBroadcast, serverLifecycle>>
    /\ UNCHANGED <<clientVars, aggregatorVars, providerVars>>

\* The 'message' handler attached to every connection, before the
\* connection limit is tested.
MessageCalls_AnyConnection(c, f) == ServerOnMessage(f)

\* The onMessage calls a frame f on connection c leads to: the 'message'
\* handler is attached only to a connection that passed the connection limit.
MessageCalls(c, f) == IF clients[c].admitted THEN ServerOnMessage(f) ELSE <<>>

\* Frame f arrives on connection c, which is open or, closed by the server
\* with 1013, still waiting for the peer's close frame.
ServerMessage(c, f) ==
    /\ clients[c].readyState \in {OPEN, CLOSING} /\ ~clients[c].terminated
    /\ serverFrameCount < MaxFrames
    /\ serverFrameCount' = serverFrameCount + 1
    /\ lastServerFrame' = [conn |-> c, valid |-> f.valid, value |-> f.value]
    /\ LET calls == MessageCalls(c, f)
       IN /\ onMessageCount' = onMessageCount + Len(calls)
          /\ lastOnMessage' = IF calls = <<>> THEN lastOnMessage ELSE calls[Len(calls)]
    /\ UNCHANGED <<serverOptions, clients, handshakeCount, lastHandshake,
                   lastBroadcast, serverLifecycle>>
    /\ UNCHANGED <<clientVars, aggregatorVars, providerVars>>

\* The server with inbound traffic.
NextServerInbound ==
    \/ Admission
    \/ \E c \in DOMAIN clients, f \in ServerFrames : ServerMessage(c, f)

Init_ServerInbound ==
    /\ InitProviders
    /\ InitClient({IdleClientConfig})
    /\ InitServer(ServerConfigs)
    /\ InitAggregator({1000})

SpecServerInbound ==
    /\ Init_ServerInbound
    /\ [][NextServerInbound]_vars

\* The frames and envelopes of the traffic that runs beside the heartbeat:
\* text that is not JSON and a well-formed message; an envelope within the
\* size limit.
TrafficFrames ==
    { [valid |-> FALSE, value |-> JNull],
      [valid |-> TRUE,
       value |-> JObject(<<Member("type", JString), Member("payload", JString)>>)] }
TrafficEnvelopes == {[ascii |-> 5, wide |-> 0]}

\* The server with inbound frames and broadcasts interleaved.
NextServerTraffic ==
    \/ Admission
    \/ \E c \in DOMAIN clients, f \in TrafficFrames : ServerMessage(c, f)
    \/ \E m \in TrafficEnvelopes : Broadcast(m)

Init_ServerTraffic ==
    /\ InitProviders
    /\ InitClient({IdleClientConfig})
    /\ InitServer(ServerConfigs)
    /\ InitAggregator({1000})

SpecServerTraffic ==
    /\ Init_ServerTraffic
    /\ [][NextServerTraffic]_vars

\* The options of the server whose heartbeat runs beside traffic: no
\* admission checks, an onMessage callback, a connection limit of two.
HeartbeatConfigs ==
    { [allowedOrigins |-> NoAllowlist, verifyClient |-> FALSE, maxConnections |-> 2,
       onMessage |-> TRUE] }

\* The heartbeat and its disposers.
NextServerCleanup ==
    \/ Handshake("none", TRUE)
    \/ \E c \in DOMAIN clients : ConnClose(c)
    \/ Tick
    \/ \E c \in DOMAIN clients : Pong(c)
    \/ \E c \in DOMAIN clients : PeerSilent(c)
    \/ StopHeartbeat
    \/ Cleanup

Init_ServerCleanup ==
    /\ InitProviders
    /\ InitClient({IdleClientConfig})
    /\ InitServer(HeartbeatConfigs)
    /\ InitAggregator({1000})

SpecServerCleanup ==
    /\ Init_ServerCleanup
    /\ [][NextServerCleanup]_vars

\* The heartbeat with arrivals, inbound frames and broadcasts interleaved,
\* while no connection's close event has happened yet: every connection,
\* terminated or closed with 1013, is still in wss.clients.
NextHeartbeatTraffic ==
    \/ Handshake("none", TRUE)
    \/ Tick
    \/ \E c \in DOMAIN clients : Pong(c)
    \/ \E c \in DOMAIN clients : PeerSilent(c)
    \/ \E c \in DOMAIN clients, f \in TrafficFrames : ServerMessage(c, f)
    \/ \E m \in TrafficEnvelopes : Broadcast(m)

Init_HeartbeatTraffic ==
    /\ InitProviders
    /\ InitClient({IdleClientConfig})
    /\ InitServer(HeartbeatConfigs)
    /\ InitAggregator({1000})

SpecHeartbeatTraffic ==
    /\ Init_HeartbeatTraffic
    /\ [][NextHeartbeatTraffic]_vars

\* =============================================== claims, server inbound
\* A value that is an object with a string `type` member.
HasStringType(value) ==
    /\ value.t = "object"
    /\ \E i \in DOMAIN value.kids :
          value.kids[i].k = "type" /\ value.kids[i].v.t = "string"

\* The nodes of a value: the path of keys and indexes to each, with its type.
RECURSIVE Nodes(_)
Nodes(value) ==
    {[path |-> <<>>, t |-> value.t]}
        \cup UNION {{[path |-> <<[key |-> value.kids[i].k,
                                   index |-> IF value.t = "array" THEN i ELSE 0]>>
                                 \o n.path,
                        t |-> n.t] : n \in Nodes(value.kids[i].v)}
                    : i \in DOMAIN value.kids}

\* The nodes that are not below a stripped key.
CleanNodes(value) ==
    {n \in Nodes(value) :
        \A i \in DOMAIN n.path : n.path[i].key \notin DangerousKeys}

\* C22: a frame on the server that is not valid JSON, or whose JSON is not an
\* object with a string `type`, causes no onMessage call and leaves the
\* connection open and tracked.
C22_ServerDropsMalformed ==
    [][(/\ serverFrameCount' = serverFrameCount + 1
        /\ ~(lastServerFrame'.valid /\ HasStringType(lastServerFrame'.value))) =>
          /\ onMessageCount' = onMessageCount
          /\ clients' = clients]_vars

Exhausted ==
    /\ maxAttempts > 0 /\ attempts = maxAttempts
    /\ ~disposed /\ timers = {}
    /\ ws # 0 /\ sockets[ws] = CLOSED /\ LiveSockets = {}

\* C25: reconnect exhaustion is terminal: from a state in which the client
\* has given up, no step (a subscribe call included) constructs a socket, and
\* the client stays not connected.
C25_ExhaustionTerminal ==
    [][Exhausted => (Len(sockets') = Len(sockets) /\ ~connected')]_vars

\* C26: until the first subscribe() the client has no socket, no timer, is
\* not connected and has transmitted nothing; a send() before any subscribe()
\* only puts its message in the queue; and the first subscribe() on a client
\* that is not disposed constructs exactly one socket.
C26_ConstructedInert ==
    /\ [](closures = {} =>
             /\ ws = 0 /\ sockets = <<>>
             /\ timers = {} /\ reconnectTimer = 0
             /\ ~connected /\ wire = <<>>)
    /\ [][(closures = {} /\ sendCount' = sendCount + 1) =>
             /\ sockets' = <<>> /\ ws' = 0 /\ wire' = <<>>
             /\ queue' # <<>> /\ queue'[Len(queue')] = sendCount']_vars
    /\ [][(closures = {} /\ closures' # {} /\ ~disposed) =>
             /\ Len(sockets') = 1 /\ ws' = 1
             /\ sockets'[1] = CONNECTING]_vars

\* C26 witness: after messages were queued the first subscribe() has
\* constructed the client's only socket, still connecting.
C26_Witness ==
    /\ Cardinality(closures) = 1 /\ ~disposed
    /\ Len(sockets) = 1 /\ ws = 1 /\ sockets[1] = CONNECTING
    /\ Len(queue) = 2

\* C29: a subscribe() constructs a socket only when it is the first
\* subscriber (the count goes from 0 to 1), and a closure call disposes the
\* client only when it removes the last one (from 1 to 0).
C29_CountTransitionsOnly ==
    [][\A h \in Handlers :
          /\ (Subscribe(h) /\ Len(sockets') > Len(sockets)) => listeners = {}
          /\ (Unsubscribe(h) /\ ~disposed /\ disposed') => listeners = {h}]_vars

\* ============================================================ the aggregator
\* ------------------------------------------------------------ input domains
\* The types of the events pushed: one that summarize() reports and one it
\* has nothing to say about.
EventKinds == {"file_read", "thinking"}

\* What the onSummary callback does when it is invoked: nothing that touches
\* the aggregator, or a push of one event.
Callbacks == {"none", "push"}

\* mapToProgressKind(type), on the event types above.
MapToProgressKind(type) ==
    CASE type = "file_read" -> "file_read"
      [] type = "thinking" -> "thinking"
      [] OTHER -> "null"

\* The progress kinds for which summarize() produces a part of the summary.
SummarizedKinds == {"file_read", "file_write", "command", "error", "complete"}

\* summarize(events): the empty string when no event contributes a part.
Summarize(events) ==
    IF \E i \in DOMAIN events : MapToProgressKind(events[i].type) \in SummarizedKinds
    THEN "summary"
    ELSE ""

\* The fields of the aggregator that push(), flush() and the callback change.
Aggregator ==
    [buffer |-> buffer, summaries |-> summaries, pushCount |-> pushCount,
     lastFlushAt |-> lastFlushAt]

\* ---------------------------------------------------------- aggregator code
RECURSIVE DoPush(_, _, _, _)
RECURSIVE Flush(_, _)

\* flush() without `this.buffer = []`.
Flush_KeepsBuffer(a, cb) ==
    IF Len(a.buffer) = 0 THEN a
    ELSE LET events == a.buffer
             taken == [a EXCEPT !.lastFlushAt = a.pushCount]
         IN IF Summarize(events) = "" THEN taken
            ELSE LET called ==
                         [taken EXCEPT !.summaries =
                             Append(@, [events |-> events, buffer |-> taken.buffer,
                                        since |-> a.lastFlushAt,
                                        pushed |-> a.pushCount])]
                 IN IF cb = "push"
                    THEN DoPush(called, "file_read", "callback", "none")
                    ELSE called

\* flush(), the callback behaving as cb: return on an empty buffer; copy the
\* buffer and empty it; call onSummary with the copy if the summary is not
\* empty.  A callback that pushes does so once, and stays passive if invoked
\* again inside that push.
Flush(a, cb) ==
    IF Len(a.buffer) = 0 THEN a
    ELSE LET events == a.buffer
             taken == [a EXCEPT !.buffer = <<>>, !.lastFlushAt = a.pushCount]
         IN IF Summarize(events) = "" THEN taken
            ELSE LET called ==
                         [taken EXCEPT !.summaries =
                             Append(@, [events |-> events, buffer |-> taken.buffer,
                                        since |-> a.lastFlushAt,
                                        pushed |-> a.pushCount])]
                 IN IF cb = "push"
                    THEN DoPush(called, "file_read", "callback", "none")
                    ELSE called

\* push(event) by the application or by the callback: append, and flush when
\* the buffer has reached maxBufferSize.
DoPush(a, kind, by, cb) ==
    LET pushed == [a EXCEPT !.buffer = Append(@, [id |-> a.pushCount + 1,
                                                  type |-> kind, by |-> by]),
                            !.pushCount = @ + 1]
    IN IF Len(pushed.buffer) >= maxBufferSize THEN Flush(pushed, cb) ELSE pushed

\* The aggregator's fields become those of a.
Becomes(a) ==
    /\ buffer' = a.buffer
    /\ summaries' = a.summaries
    /\ pushCount' = a.pushCount
    /\ lastFlushAt' = a.lastFlushAt

\* ------------------------------------------------------- aggregator actions
\* aggregator.push(event), the event being of this kind.
Push(kind, cb) ==
    /\ pushCount + (IF cb = "push" THEN 2 ELSE 1) <= MaxPushes
    /\ Becomes(DoPush(Aggregator, kind, "app", cb))
    /\ UNCHANGED <<interval, maxBufferSize>>
    /\ UNCHANGED <<clientVars, serverVars, providerVars>>

\* The setInterval callback runs.
IntervalTick(cb) ==
    /\ interval
    /\ cb = "push" => pushCount < MaxPushes
    /\ Becomes(Flush(Aggregator, cb))
    /\ UNCHANGED <<interval, maxBufferSize>>
    /\ UNCHANGED <<clientVars, serverVars, providerVars>>

\* aggregator.stop()
Stop(cb) ==
    /\ cb = "push" => pushCount < MaxPushes
    /\ interval' = FALSE
    /\ Becomes(Flush(Aggregator, cb))
    /\ UNCHANGED maxBufferSize
    /\ UNCHANGED <<clientVars, serverVars, providerVars>>

NextAggregator ==
    \/ \E kind \in EventKinds, cb \in Callbacks : Push(kind, cb)
    \/ \E cb \in Callbacks : IntervalTick(cb)
    \/ \E cb \in Callbacks : Stop(cb)

\* The aggregator under study, beside a client and a server that stay idle.
Init_Aggregator ==
    /\ InitProviders
    /\ InitClient({IdleClientConfig})
    /\ InitServer({IdleServerConfig})
    /\ InitAggregator(AggregatorConfigs)

SpecAggregator ==
    /\ Init_Aggregator
    /\ [][NextAggregator]_vars

\* ===================================================== claims, aggregator
\* A stop() in this state invokes no callback.
StopIsSilent == \A cb \in Callbacks : ENABLED (Stop(cb) /\ UNCHANGED summaries)

\* C27: stop() cancels the interval timer and flushes: buffered events are
\* passed to the callback at most once and the buffer is left empty; with an
\* empty buffer the callback is not invoked; after stop() the timer triggers
\* no flush; and a second stop() invokes no callback.
C27_StopFlushes ==
    /\ [][\A cb \in Callbacks :
             Stop(cb) =>
                /\ ~interval'
                /\ buffer' = <<>>
                /\ buffer # <<>> =>
                      Cardinality({i \in DOMAIN summaries' \ DOMAIN summaries :
                                     \E j \in DOMAIN summaries'[i].events :
                                        summaries'[i].events[j] = buffer[1]}) <= 1
                /\ buffer = <<>> => summaries' = summaries
                /\ StopIsSilent']_vars
    /\ [][\A cb \in Callbacks : IntervalTick(cb) => interval]_vars
    /\ [][~interval => ~interval']_vars

\* C28: every onSummary call receives exactly the events pushed since the
\* previous flush, in push order, and finds the buffer already empty; no
\* event is in two calls.
C28_BatchExactlySinceFlush ==
    /\ \A i \in DOMAIN summaries :
          LET call == summaries[i]
          IN /\ call.buffer = <<>>
             /\ Len(call.events) = call.pushed - call.since
             /\ \A j \in DOMAIN call.events : call.events[j].id = call.since + j
    /\ \A i, j \in DOMAIN summaries :
          i < j => summaries[i].pushed <= summaries[j].since

\* C28 witness: a call with two events was followed by a call whose batch
\* starts with the event the first call's callback pushed.
C28_Witness ==
    /\ Len(summaries) >= 2
    /\ Len(summaries[1].events) = 2
    /\ summaries[2].events[1].by = "callback"

\* ================================================ claims, client (liveness)
\* The reconnect timer numbered k is set and has neither fired nor been
\* cancelled.
Pending(k) == \E t \in timers : t.id = k

\* A close that finds subscribers, no disposal and attempts left schedules a
\* reconnect timer and keeps its handle.
CloseSchedulesTimer ==
    [][\A s \in DOMAIN sockets :
          (/\ SocketClose(s)
           /\ ~disposed
           /\ listeners # {}
           /\ (maxAttempts = 0 \/ attempts < maxAttempts)) =>
             /\ timerCount' = timerCount + 1
             /\ reconnectTimer' = timerCount'
             /\ \E t \in timers' \ timers : t.id = timerCount']_vars

\* C30 as stated: under fairness of the timer, a close with subscribers, not
\* disposed and attempts left is eventually followed by a new connection
\* attempt: a reconnect timer is scheduled, and it fires on a client that is
\* not disposed, clearing the handle and creating a socket.
C30_ReconnectFollows ==
    /\ CloseSchedulesTimer
    /\ \A k \in TimerIds :
          Pending(k) ~> ((~Pending(k) /\ ~disposed) \/ Len(sockets) = MaxSockets)

\* C30 amended: under fairness of the timer, a close with subscribers, not
\* disposed and attempts left schedules a reconnect timer, and unless the
\* client is disposed before the timer fires a new connection attempt
\* eventually follows: the firing clears the handle and creates a socket.
C30_ReconnectFollowsUnlessDisposed ==
    /\ CloseSchedulesTimer
    /\ [][\A t \in timers :
             (t \notin timers' /\ ~disposed') =>
                /\ reconnectTimer' = 0
                /\ Len(sockets') = Len(sockets) + 1
                /\ ws' = Len(sockets')
                /\ sockets'[ws'] = CONNECTING]_vars
    /\ \A k \in TimerIds :
          Pending(k) ~> (~Pending(k) \/ Len(sockets) = MaxSockets)

\* C30 witness: the first socket closed, its reconnect timer fired and the
\* second socket is connecting.
C30_Witness ==
    /\ ~disposed
    /\ listeners # {}
    /\ timerCount = 1
    /\ timers = {}
    /\ reconnectTimer = 0
    /\ attempts = 1
    /\ Len(sockets) = 2
    /\ sockets[1] = CLOSED
    /\ ws = 2
    /\ sockets[2] = CONNECTING

\* ================================================ claims, server traffic
\* The connections the connection limit closed with 1013.
Rejected == {c \in DOMAIN clients : clients[c].closeCode = 1013}

\* C31: a connection the admission gate rejects gets no broadcast, no
\* onConnection and no onMessage call, however broadcasts and frames
\* interleave with its arrival and closing: a handshake the origin test or
\* the verifier refuses creates no connection at all, and a connection over
\* capacity, while still in wss.clients, is skipped by broadcast() and has no
\* message handler.
C31_RejectedGetsNothing ==
    /\ [][(handshakeCount' = handshakeCount + 1 /\ ~lastHandshake'.accepted) =>
             clients' = clients]_vars
    /\ [](\A c \in Rejected : ~clients[c].admitted)
    /\ [](\A i \in DOMAIN lastBroadcast.sends : lastBroadcast.sends[i].to \notin Rejected)
    /\ [][onMessageCount' > onMessageCount => lastServerFrame'.conn \notin Rejected]_vars

\* C31 witness: while a connection closed with 1013 was still in wss.clients, a
\* broadcast reached another connection and skipped it, and a valid frame
\* arrived on it.
C31_Witness ==
    /\ onMessage
    /\ lastBroadcast.tracked > Len(lastBroadcast.sends)
    /\ Len(lastBroadcast.sends) >= 1
    /\ lastServerFrame.valid
    /\ lastServerFrame.conn \in Rejected \cap WssClients

\* C33: only a pong sets a connection's alive flag back to true: a frame
\* from the connection, a broadcast or the arrival of another connection
\* leaves the flag of every connection as it was, so a connection that sends
\* messages but answers no ping is terminated by the second tick all the same.
C33_OnlyPongRevives ==
    /\ [][\A c \in DOMAIN clients :
             (~clients[c].isAlive /\ clients'[c].isAlive) =>
                (clients[c].pongInFlight /\ ~clients'[c].pongInFlight)]_vars
    /\ [][(\/ \E c \in DOMAIN clients, f \in TrafficFrames : ServerMessage(c, f)
           \/ \E m \in TrafficEnvelopes : Broadcast(m)
           \/ Handshake("none", TRUE)) =>
             \A c \in DOMAIN clients : clients'[c].isAlive = clients[c].isAlive]_vars
    /\ [](\A c \in DOMAIN clients : clients[c].missed >= 2 => clients[c].terminated)

\* C33 witness: both frames came from a connection whose peer answered no
\* ping, onMessage was called for them, and the connection is terminated.
C33_Witness ==
    /\ serverFrameCount = MaxFrames
    /\ onMessageCount >= 1
    /\ lastBroadcast.sends # <<>>
    /\ LET c == lastServerFrame.conn
       IN /\ c # 0
          /\ clients[c].silent /\ clients[c].terminated /\ clients[c].missed = 2
          /\ ~clients[c].pongInFlight

\* ================================================ claims, server cleanup
\* Calling either disposer in this state changes nothing.
DisposersAreNoOps ==
    /\ ENABLED (StopHeartbeat /\ UNCHANGED vars)
    /\ ENABLED (Cleanup /\ UNCHANGED vars)

\* C32: the disposer of createHeartbeat, and the server's cleanup, stop the
\* interval; from then on the monitor pings no connection and terminates
\* none, and calling the same disposer again changes nothing.
C32_DisposerHaltsProbing ==
    /\ [][(StopHeartbeat \/ Cleanup) => ~heartbeat']_vars
    /\ [][~heartbeat =>
             /\ ~heartbeat'
             /\ \A c \in DOMAIN clients :
                   /\ clients[c].isAlive => clients'[c].isAlive
                   /\ ~clients[c].outstanding => ~clients'[c].outstanding
                   /\ clients'[c].terminated = clients[c].terminated]_vars
    /\ [][StopHeartbeat => (ENABLED (StopHeartbeat /\ UNCHANGED vars))']_vars
    /\ [][Cleanup => DisposersAreNoOps']_vars

\* C32 witness: cleanup was called while a connection had a ping unanswered
\* and its peer silent; the connection is still open.
C32_Witness ==
    /\ ~heartbeat /\ ~listening
    /\ \E c \in DOMAIN clients :
          /\ clients[c].readyState = OPEN /\ clients[c].silent
          /\ ~clients[c].isAlive /\ ~clients[c].terminated

\* C36: a connection is closed for capacity only when the admitted
\* connections still open number at least maxConnections; connections that
\* were rejected and are still closing do not count.
C36_RejectedOnlyWhenFull ==
    [][(/\ Len(clients') = Len(clients) + 1
        /\ clients'[Len(clients')].closeCode = 1013) =>
          Cardinality(AdmittedOpen) >= maxConnections]_vars

\* =============================================== claims, client (disposal)
\* C37: a disposed client transmits nothing: no step of a disposed client
\* adds to the wire, whatever sockets are still open, and a send() after
\* dispose puts its message at the tail of the queue, dropping the oldest
\* message exactly when the queue is at its bound.
C37_DisposedNeverTransmits ==
    /\ [](disposed => ws = 0)
    /\ [][disposed => wire' = wire]_vars
    /\ [][(disposed /\ sendCount' = sendCount + 1) =>
             /\ queue' # <<>>
             /\ queue'[Len(queue')] = sendCount'
             /\ SubSeq(queue', 1, Len(queue') - 1) =
                   IF Len(queue) >= maxQueueSize THEN Shift(queue) ELSE queue]_vars

\* C37 witness: after dispose a socket the client constructed has opened,
\* two messages were passed to send(), and both are in the queue.
C37_Witness ==
    /\ disposed
    /\ wire = <<>>
    /\ Len(queue) = 2
    /\ \E s \in DOMAIN sockets : sockets[s] = OPEN

\* =========================================== claims, aggregator (continued)
\* The onSummary calls whose events argument holds the event numbered k.
BatchesOf(k, calls) ==
    {i \in DOMAIN calls : \E j \in DOMAIN calls[i].events : calls[i].events[j].id = k}

\* C40: no pushed event is lost: when stop() returns, every event pushed so
\* far, whatever its type, has been passed to onSummary in exactly one batch;
\* no event is ever in two batches; and between operations the buffer is
\* shorter than maxBufferSize.
C40_NoEventLost ==
    /\ [][\A cb \in Callbacks :
             Stop(cb) =>
                \A k \in 1..pushCount' : Cardinality(BatchesOf(k, summaries')) = 1]_vars
    /\ [](\A k \in 1..pushCount : Cardinality(BatchesOf(k, summaries)) <= 1)
    /\ [](Len(buffer) < maxBufferSize)

\* ========================================================= the Claude session
\* ------------------------------------------------------------ input domains
\* The messages a query's response yields: the system init message, a result
\* with subtype success, a result with another subtype, an assistant message.
ClaudeMessages == {"init", "success", "error", "assistant"}

\* ----------------------------------------------------------- session code
\* withLock(fn) called by op: the call waits on the promise queryLock held,
\* and its own promise becomes queryLock.
WithLock(op) ==
    /\ lockCalls' = Append(lockCalls,
                           [op |-> op, prev |-> queryLock, state |-> "waiting",
                            result |-> "none", threw |-> FALSE,
                            afterAbort |-> aborted, outcome |-> "none"])
    /\ queryLock' = Len(lockCalls) + 1

\* What the call settles with when runQuery returns status: execute() returns
\* it, send() discards it.
Settle(call, status) == IF call.op = "execute" THEN status ELSE "void"

\* runQuery's return value without the final `if (aborted)`.
RunQueryResult_NoAbortCheck(call) == call.result

\* runQuery's return value after the loop.
RunQueryResult(call) == IF aborted THEN "failed" ELSE call.result

\* -------------------------------------------------------- session actions
\* session.execute(prompt)
Execute ==
    /\ Len(lockCalls) + sendThrows < MaxCalls
    /\ WithLock("execute")
    /\ UNCHANGED <<released, sessionId, aborted, started, sendThrows>>
    /\ UNCHANGED <<clientVars, serverVars, aggregatorVars, openCodeVars, copilotVars>>

\* session.send(message): throws when the session has no id yet.
SessionSend ==
    /\ Len(lockCalls) + sendThrows < MaxCalls
    /\ IF ~sessionId
       THEN /\ sendThrows' = sendThrows + 1
            /\ UNCHANGED <<lockCalls, queryLock>>
       ELSE /\ WithLock("send")
            /\ UNCHANGED sendThrows
    /\ UNCHANGED <<released, sessionId, aborted, started>>
    /\ UNCHANGED <<clientVars, serverVars, aggregatorVars, openCodeVars, copilotVars>>

\* session.abort()
Abort ==
    /\ aborted' = TRUE
    /\ UNCHANGED <<lockCalls, queryLock, released, sessionId, started, sendThrows>>
    /\ UNCHANGED <<clientVars, serverVars, aggregatorVars, openCodeVars, copilotVars>>

\* prev.then(fn): the promise call k waits on is resolved and its runQuery
\* starts, its local `result` being { status: 'complete' }.
StartQuery(k) ==
    /\ lockCalls[k].state = "waiting"
    /\ lockCalls[k].prev \in released
    /\ lockCalls' = [lockCalls EXCEPT ![k].state = "running",
                                      ![k].result = "complete"]
    /\ started' = Append(started, k)
    /\ UNCHANGED <<queryLock, released, sessionId, aborted, sendThrows>>
    /\ UNCHANGED <<clientVars, serverVars, aggregatorVars, openCodeVars, copilotVars>>

\* The response of call k yields message m: one turn of the for-await loop.
QueryMessage(k, m) ==
    /\ lockCalls[k].state = "running"
    /\ IF aborted
       THEN /\ lockCalls' = [lockCalls EXCEPT ![k].state = "broken"]
            /\ UNCHANGED sessionId
       ELSE /\ lockCalls' = [lockCalls EXCEPT
                                ![k].result = CASE m = "success" -> "complete"
                                                [] m = "error" -> "failed"
                                                [] OTHER -> @]
            /\ sessionId' = (sessionId \/ m = "init")
    /\ UNCHANGED <<queryLock, released, aborted, started, sendThrows>>
    /\ UNCHANGED <<clientVars, serverVars, aggregatorVars, openCodeVars, copilotVars>>

\* A lock that is released only when fn returns normally.
QueryThrow_KeepsLock(k) ==
    /\ lockCalls[k].state = "running"
    /\ lockCalls' = [lockCalls EXCEPT ![k].state = "done", ![k].threw = TRUE,
                                      ![k].result = "none",
                                      ![k].outcome = Settle(lockCalls[k], "failed")]
    /\ UNCHANGED released
    /\ UNCHANGED <<queryLock, sessionId, aborted, started, sendThrows>>
    /\ UNCHANGED <<clientVars, serverVars, aggregatorVars, openCodeVars, copilotVars>>

\* The query of call k throws: the catch block emits an error event and
\* execute() returns failed; finally() resolves the call's lock promise.
QueryThrow(k) ==
    /\ lockCalls[k].state = "running"
    /\ lockCalls' = [lockCalls EXCEPT ![k].state = "done", ![k].threw = TRUE,
                                      ![k].result = "none",
                                      ![k].outcome = Settle(lockCalls[k], "failed")]
    /\ released' = released \cup {k}
    /\ UNCHANGED <<queryLock, sessionId, aborted, started, sendThrows>>
    /\ UNCHANGED <<clientVars, serverVars, aggregatorVars, openCodeVars, copilotVars>>

\* The response of call k ends or the loop was left: runQuery returns, and
\* finally() resolves the call's lock promise.
QueryReturn(k) ==
    /\ lockCalls[k].state \in {"running", "broken"}
    /\ lockCalls' = [lockCalls EXCEPT
                        ![k].state = "done",
                        ![k].result = "none",
                        ![k].outcome = Settle(lockCalls[k], RunQueryResult(lockCalls[k]))]
    /\ released' = released \cup {k}
    /\ UNCHANGED <<queryLock, sessionId, aborted, started, sendThrows>>
    /\ UNCHANGED <<clientVars, serverVars, aggregatorVars, openCodeVars, copilotVars>>

NextClaude ==
    \/ Execute
    \/ SessionSend
    \/ Abort
    \/ \E k \in DOMAIN lockCalls : StartQuery(k)
    \/ \E k \in DOMAIN lockCalls, m \in ClaudeMessages : QueryMessage(k, m)
    \/ \E k \in DOMAIN lockCalls : QueryThrow(k)
    \/ \E k \in DOMAIN lockCalls : QueryReturn(k)

\* A resolved promise's continuation eventually runs, and every query's
\* response eventually ends.
ClaudeFairness ==
    \A k \in 1..MaxCalls :
        /\ WF_vars(k \in DOMAIN lockCalls /\ StartQuery(k))
        /\ WF_vars(k \in DOMAIN lockCalls /\ QueryReturn(k))

\* The Claude session under study, everything else idle.
Init_Claude ==
    /\ InitClient({IdleClientConfig})
    /\ InitServer({IdleServerConfig})
    /\ InitAggregator({1000})
    /\ InitCopilot
    /\ InitClaude(BOOLEAN)
    /\ InitOpenCode({"ses-1"}, {IdleOpenCodeEvent}, {"ctx-1"})

SpecClaude ==
    /\ Init_Claude
    /\ [][NextClaude]_vars
    /\ ClaudeFairness

\* ================================================= claims, Claude session
\* The calls whose runQuery is in progress.
InProgress == {k \in DOMAIN lockCalls : lockCalls[k].state \in {"running", "broken"}}

\* C34: the query lock gives mutual exclusion: at most one runQuery is in
\* progress at a time, queries start in the order of the calls, a query that
\* ends, failing or throwing included, resolves its lock promise, and every
\* call eventually runs.
C34_QueryLock ==
    /\ [](Cardinality(InProgress) <= 1)
    /\ [](\A i, j \in DOMAIN started : i < j => started[i] < started[j])
    /\ [][\A k \in DOMAIN lockCalls :
             (lockCalls[k].state # "done" /\ lockCalls'[k].state = "done")
                => k \in released']_vars
    /\ \A k \in 1..MaxCalls :
          (k \in DOMAIN lockCalls) ~>
              (k \in DOMAIN lockCalls /\ lockCalls[k].state # "waiting")

\* C34 witness: the first query threw, the second call's query is in
\* progress and a send() made meanwhile is waiting for it.
C34_Witness ==
    /\ Len(lockCalls) = 3
    /\ lockCalls[1].threw
    /\ lockCalls[2].state = "running"
    /\ lockCalls[3].state = "waiting" /\ lockCalls[3].op = "send"
    /\ lockCalls[3].prev \notin released

\* C39: abort is sticky: the aborted flag is never cleared, and from the
\* moment it is set every execute() that returns, returns failed: none
\* returns complete again.
C39_AbortSticky ==
    /\ [][aborted => aborted']_vars
    /\ [][\A k \in DOMAIN lockCalls :
             (/\ aborted
              /\ lockCalls[k].op = "execute"
              /\ lockCalls[k].state # "done" /\ lockCalls'[k].state = "done")
                => lockCalls'[k].outcome = "failed"]_vars
    /\ [](\A k \in DOMAIN lockCalls :
             (lockCalls[k].afterAbort /\ lockCalls[k].op = "execute")
                => lockCalls[k].outcome \in {"none", "failed"})

\* C39 witness: an execute() returned complete, abort() was called, and a
\* later execute() has returned failed without its query throwing.
C39_Witness ==
    \E j, k \in DOMAIN lockCalls :
        /\ j < k
        /\ lockCalls[j].outcome = "complete"
        /\ lockCalls[k].afterAbort /\ lockCalls[k].op = "execute"
        /\ ~lockCalls[k].threw /\ lockCalls[k].outcome = "failed"

\* ======================================================= the OpenCode mapper
\* ------------------------------------------------------------ input domains
\* files a patch part names, at most
MaxFiles == 2

\* A field that is absent from an event (undefined).
Undefined == "undefined"

\* Session ids the OpenCode server issues, and context ids of the consumer.
SessionIDs == {"ses-1", "ses-2"}
ContextIds == {"ctx-1", "ctx-2"}

FileNames == {"a.ts", "b.ts"}
ToolNames == {"Read", "ripgrep", "apply_patch", "bash"}

RECURSIVE FileLists(_)
\* The lists of at most n file names.
FileLists(n) ==
    IF n = 0 THEN {<<>>}
    ELSE FileLists(n - 1) \cup
         {Append(l, f) : l \in {x \in FileLists(n - 1) : Len(x) = n - 1},
                         f \in FileNames}

NoPart ==
    [type |-> "none", delta |-> "", text |-> "", tool |-> "", status |-> "none",
     files |-> <<>>]

\* The parts of a message.part.updated event: text and reasoning with and
\* without a delta, a tool in each status, step-start, patch, and a part type
\* the mapper has no case for.
OpenCodeParts ==
    {[NoPart EXCEPT !.type = t, !.delta = d, !.text = "text"] :
        t \in {"text", "reasoning"}, d \in {"", "delta"}}
    \cup {[NoPart EXCEPT !.type = "tool", !.tool = n, !.status = st] :
            n \in ToolNames, st \in {"pending", "running", "completed", "error"}}
    \cup {[NoPart EXCEPT !.type = "step-start"],
          [NoPart EXCEPT !.type = "compaction"]}
    \cup {[NoPart EXCEPT !.type = "patch", !.files = l] : l \in FileLists(MaxFiles)}

\* The events of the SSE stream: every known type with the sessionID of this
\* session, of another session, or without one, and a type the mapper has no
\* case for.
OpenCodeEvents ==
    {[type |-> "message.part.updated", sessionID |-> sid, error |-> FALSE,
      part |-> p] : sid \in SessionIDs \cup {Undefined}, p \in OpenCodeParts}
    \cup {[type |-> "session.error", sessionID |-> sid, error |-> e,
           part |-> NoPart] : sid \in SessionIDs \cup {Undefined}, e \in BOOLEAN}
    \cup {[type |-> "session.idle", sessionID |-> sid, error |-> FALSE,
           part |-> NoPart] : sid \in SessionIDs \cup {Undefined}}
    \cup {[IdleOpenCodeEvent EXCEPT !.sessionID = sid] :
            sid \in SessionIDs \cup {Undefined}}

\* ------------------------------------------------------------- mapper code
\* toolName.toLowerCase()
ToLowerCase(name) == IF name = "Read" THEN "read" ELSE name

\* name.includes(sub)
Includes(name, sub) ==
    \/ name = sub
    \/ <<name, sub>> \in {<<"ripgrep", "grep">>, <<"apply_patch", "patch">>}

\* classifyToolKind(toolName)
ClassifyToolKind(toolName) ==
    IF toolName \in {"", Undefined} THEN "command"
    ELSE LET name == ToLowerCase(toolName) IN
         IF name \in {"read", "view", "cat"} \/ Includes(name, "grep")
         THEN "file_read"
         ELSE IF \/ name \in {"write", "edit", "multiedit"}
                 \/ Includes(name, "patch") \/ Includes(name, "insert")
              THEN "file_write"
              ELSE "command"

\* The AgentEvent passed to onEvent (id and timestamp left out).
AgentEvent(ctx, type, content) ==
    [contextId |-> ctx, type |-> type, content |-> content]

RECURSIVE PatchEvents(_, _)
\* case 'patch': one file_write event per file, in order.
PatchEvents(ctx, files) ==
    IF files = <<>> THEN <<>>
    ELSE <<AgentEvent(ctx, "file_write", Head(files))>>
         \o PatchEvents(ctx, Tail(files))

\* switch (part.type) of an event of the session.
MapPart(part, ctx) ==
    CASE part.type = "text" ->
            <<AgentEvent(ctx, "output",
                         IF part.delta # "" THEN part.delta ELSE part.text)>>
      [] part.type = "reasoning" ->
            <<AgentEvent(ctx, "thinking",
                         IF part.delta # "" THEN part.delta ELSE part.text)>>
      [] part.type = "tool" ->
            CASE part.status = "running" ->
                    <<AgentEvent(ctx, ClassifyToolKind(part.tool), part.tool)>>
              [] part.status = "completed" ->
                    <<AgentEvent(ctx, "command_output", "")>>
              [] part.status = "error" ->
                    <<AgentEvent(ctx, "error", "tool error")>>
              [] OTHER -> <<>>
      [] part.type = "step-start" ->
            <<AgentEvent(ctx, "thinking", "Starting a new step...")>>
      [] part.type = "patch" -> PatchEvents(ctx, part.files)
      [] OTHER -> <<>>

\* A mapper that does not look at the event's sessionID.
MapOpenCodeEvent_AnySession(sid, event, ctx) ==
    CASE event.type = "message.part.updated" -> MapPart(event.part, ctx)
      [] event.type = "session.error" ->
            <<AgentEvent(ctx, "error",
                         IF event.error THEN "extracted" ELSE "Session error")>>
      [] event.type = "session.idle" ->
            <<AgentEvent(ctx, "complete", "Session idle.")>>
      [] OTHER -> <<>>

\* mapOpenCodeEvent(sessionId, event, contextId, onEvent): the onEvent calls
\* it makes, in order.
MapOpenCodeEvent(sid, event, ctx) ==
    CASE event.type = "message.part.updated" ->
            IF event.sessionID # sid THEN <<>> ELSE MapPart(event.part, ctx)
      [] event.type = "session.error" ->
            IF event.sessionID # Undefined /\ event.sessionID # sid
            THEN <<>>
            ELSE <<AgentEvent(ctx, "error",
                              IF event.error THEN "extracted"
                              ELSE "Session error")>>
      [] event.type = "session.idle" ->
            IF event.sessionID # sid
            THEN <<>>
            ELSE <<AgentEvent(ctx, "complete", "Session idle.")>>
      [] OTHER -> <<>>

\* ------------------------------------------------------------ mapper action
\* The call of mapOpenCodeEvent.
MapEvent ==
    /\ ~mapped
    /\ emitted' = MapOpenCodeEvent(openCodeSessionId, openCodeEvent, contextId)
    /\ mapped' = TRUE
    /\ UNCHANGED <<openCodeSessionId, openCodeEvent, contextId>>
    /\ UNCHANGED <<clientVars, serverVars, aggregatorVars, claudeVars, copilotVars>>

NextOpenCode == MapEvent

\* One call of mapOpenCodeEvent on every input of the domains, everything
\* else idle.
Init_OpenCode ==
    /\ InitClient({IdleClientConfig})
    /\ InitServer({IdleServerConfig})
    /\ InitAggregator({1000})
    /\ InitCopilot
    /\ InitClaude({FALSE})
    /\ InitOpenCode(SessionIDs, OpenCodeEvents, ContextIds)

SpecOpenCode ==
    /\ Init_OpenCode
    /\ [][NextOpenCode]_vars

\* ================================================= claims, OpenCode mapper
\* The event types and part types mapOpenCodeEvent has a case for.
KnownEventTypes == {"message.part.updated", "session.error", "session.idle"}
KnownPartTypes == {"text", "reasoning", "tool", "step-start", "patch"}

\* C35: mapOpenCodeEvent isolates sessions: an event carrying the sessionID
\* of another session emits nothing; whatever is emitted carries the given
\* contextId; a session.error without sessionID emits exactly one event, of
\* type error; an unknown event type and an unknown part type emit nothing.
C35_SessionIsolation ==
    mapped =>
        /\ (openCodeEvent.sessionID \notin {Undefined, openCodeSessionId}
               => emitted = <<>>)
        /\ \A i \in DOMAIN emitted : emitted[i].contextId = contextId
        /\ (openCodeEvent.type = "session.error"
            /\ openCodeEvent.sessionID = Undefined
               => Len(emitted) = 1 /\ emitted[1].type = "error")
        /\ (openCodeEvent.type \notin KnownEventTypes => emitted = <<>>)
        /\ (openCodeEvent.type = "message.part.updated"
            /\ openCodeEvent.part.type \notin KnownPartTypes
               => emitted = <<>>)

\* C35 witness: a two-file patch carrying the other session's id has been
\* mapped, under the second context id, and nothing was emitted.
C35_Witness ==
    /\ mapped
    /\ openCodeEvent.type = "message.part.updated"
    /\ openCodeEvent.part.type = "patch"
    /\ Len(openCodeEvent.part.files) = 2
    /\ openCodeSessionId = "ses-1"
    /\ openCodeEvent.sessionID = "ses-2"
    /\ contextId = "ctx-2"
    /\ emitted = <<>>

\* ======================================================= the Copilot session
\* ------------------------------------------------------------------ bounds
\* execute() calls on the session, at most
MaxExecutes == 3

\* events the SDK session emits, at most
MaxSessionEvents == 3

\* -------------------------------------------------------- session actions
\* session.execute(prompt), up to the await: session.on(handler) registers a
\* new handler and its disposer is assigned to unsubscribe.
CopilotExecute ==
    /\ ~destroyed
    /\ executeCount < MaxExecutes
    /\ executeCount' = executeCount + 1
    /\ handlers' = handlers \cup {executeCount'}
    /\ unsubscribe' = executeCount'
    /\ UNCHANGED <<mapCalls, destroyed>>
    /\ UNCHANGED <<clientVars, serverVars, aggregatorVars, claudeVars, openCodeVars>>

\* The SDK session emits an event: every registered handler runs and calls
\* mapSessionEvent(config.contextId, event, config.onEvent).
SessionEvent ==
    /\ Len(mapCalls) < MaxSessionEvents
    /\ mapCalls' = Append(mapCalls, [calls |-> Cardinality(handlers),
                                     executes |-> executeCount,
                                     destroyed |-> destroyed])
    /\ UNCHANGED <<handlers, unsubscribe, executeCount, destroyed>>
    /\ UNCHANGED <<clientVars, serverVars, aggregatorVars, claudeVars, openCodeVars>>

\* session.destroy(): unsubscribe, when set, removes the handler it was
\* returned for; then the SDK session is destroyed, which may or may not drop
\* the handlers still registered on it (sdkClears).
CopilotDestroy(sdkClears) ==
    /\ ~destroyed
    /\ destroyed' = TRUE
    /\ unsubscribe' = 0
    /\ handlers' = IF sdkClears THEN {} ELSE handlers \ {unsubscribe}
    /\ UNCHANGED <<executeCount, mapCalls>>
    /\ UNCHANGED <<clientVars, serverVars, aggregatorVars, claudeVars, openCodeVars>>

NextCopilot ==
    \/ CopilotExecute
    \/ SessionEvent
    \/ \E sdkClears \in BOOLEAN : CopilotDestroy(sdkClears)

\* The Copilot session under study, everything else idle.
Init_Copilot ==
    /\ InitClient({IdleClientConfig})
    /\ InitServer({IdleServerConfig})
    /\ InitAggregator({1000})
    /\ InitCopilot
    /\ InitClaude({FALSE})
    /\ InitOpenCode({"ses-1"}, {IdleOpenCodeEvent}, {"ctx-1"})

SpecCopilot ==
    /\ Init_Copilot
    /\ [][NextCopilot]_vars

\* ================================================= claims, Copilot session
\* C38: a Copilot session has at most one active subscription at any time;
\* every SDK event emitted between the first execute() and destroy() is
\* mapped exactly once; after destroy() no handler of the session is left.
C38_OneSubscription ==
    /\ Cardinality(handlers) <= 1
    /\ \A i \in DOMAIN mapCalls :
          (mapCalls[i].executes > 0 /\ ~mapCalls[i].destroyed)
             => mapCalls[i].calls = 1
    /\ (destroyed => handlers = {})

====
